---- MODULE Spec2Model ----
(***************************************************************************)
(* Model of the fingerprint matching engine of server-py                   *)
(* (services/matcher.py, class FingerprintMatcher).                        *)
(*                                                                         *)
(* Numbers.  The code computes in float64; the model computes exactly:     *)
(*   - coordinates are integers (pixels);                                  *)
(*   - a distance is an integer number of 1/Scale pixels, the square root  *)
(*     rounded to nearest as float64 rounds it (at a coarser grain);       *)
(*   - an angle is an integer number of 1/Scale radians, np.pi being 314;  *)
(*   - a confidence or a threshold is a fraction [num, den] in lowest      *)
(*     terms, so that equality is equality of records.                     *)
(* Sequences are 1-based: index k of a minutiae list or of matches is the  *)
(* code's index k - 1.                                                     *)
(***************************************************************************)
EXTENDS Integers, Sequences, FiniteSets, TLC

VARIABLES
    match_threshold,   \* FingerprintMatcher.match_threshold, a fraction
    \* ---- one call of _calculate_match_confidence, its search step by step
    cpc,               \* "idle" | "search" | "done"
    minutiae1,         \* first argument (list of minutia entries)
    minutiae2,         \* second argument
    i,                 \* next index of the outer loop of the search
    matches,           \* list of <<i, j, distance, orientation_diff>>
    used_indices2,     \* set of claimed indices of minutiae2
    confidence,        \* returned value (a fraction), once cpc = "done"
    \* ---- one call of match_fingerprint / verify_match
    pc,                \* "idle" | "loop" | "done" | "verified"
    input_template,    \* argument input_template
    templates,         \* argument templates (list of candidates)
    idx,               \* next index of the candidate loop
    best_match,        \* local best_match
    best_confidence,   \* local best_confidence
    result,            \* value returned by match_fingerprint
    template1,         \* verify_match argument
    template2,         \* verify_match argument
    verify_result,     \* value returned by verify_match
    \* ---- one call of process_fingerprint / verify_quality / extract_features
    ppc,               \* "idle" | "contours" | "extracted" | "scored" | "done"
                       \* | "quality_verified" | "features"
    image_data,        \* argument image_data, by what decoding makes of it
    contour_idx,       \* next contour of the loop of _extract_minutiae
    minutiae,          \* local minutiae of _extract_minutiae / process_fingerprint
    extract_raised,    \* the except clause of _extract_minutiae has run
    quality,           \* local quality of process_fingerprint (a fraction)
    process_result,    \* value returned by process_fingerprint
    template_arg,      \* argument template of verify_quality / extract_features
    quality_result,    \* value returned by verify_quality
    features_result,   \* value returned by extract_features
    \* ---- one evaluation of abs(self._normalize_angle(orientation1 - orientation2))
    npc,               \* "idle" | "down" | "up" | "done"
    orientation1,      \* first orientation (a float, see Float below)
    orientation2,      \* second orientation
    norm_angle,        \* local angle of _normalize_angle
    iterations,        \* loop iterations of _normalize_angle run so far
    diff_result,       \* the value of line 189, once npc = "done"
    \* ---- the DigitalPersonaInterface object dp_interface and its callers
    platform,          \* sys.platform
    is_initialized,    \* DigitalPersonaInterface.is_initialized
    scanner_available, \* DigitalPersonaInterface.scanner_available
    calls,             \* the calls made so far, each as [op, ok]
    last_return,       \* what the last call returned
    \* ---- one call of _skeletonize
    spc,               \* "idle" | "loop" | "done"
    binary,            \* the argument as it was at the call
    image,             \* contents of the array named image
    eroded,            \* contents of the array named eroded
    temp,              \* contents of the array named temp
    skeleton,          \* contents of the array named skeleton
    loops              \* iterations of the loop run so far

vars == <<match_threshold, cpc, minutiae1, minutiae2, i, matches, used_indices2,
          confidence, pc, input_template, templates, idx, best_match,
          best_confidence, result, template1, template2, verify_result,
          ppc, image_data, contour_idx, minutiae, extract_raised, quality,
          process_result,
          template_arg, quality_result, features_result,
          npc, orientation1, orientation2, norm_angle, iterations, diff_result,
          platform, is_initialized, scanner_available, calls, last_return,
          spc, binary, image, eroded, temp, skeleton, loops>>

confVars == <<cpc, minutiae1, minutiae2, i, matches, used_indices2, confidence>>
matchVars == <<pc, input_template, templates, idx, best_match, best_confidence,
               result, template1, template2, verify_result>>
procVars == <<ppc, image_data, contour_idx, minutiae, extract_raised, quality,
          process_result,
              template_arg, quality_result, features_result>>
normVars == <<npc, orientation1, orientation2, norm_angle, iterations, diff_result>>
\* the variables of the specifications that follow the processor's
scanVars == <<platform, is_initialized, scanner_available, calls, last_return>>
skelVars == <<spc, binary, image, eroded, temp, skeleton, loops>>
auxVars == <<normVars, scanVars, skelVars>>

----------------------------------------------------------------------------
(* Bounds of the model *)

\* longest enumerated minutiae list
MaxLen == 3
\* longest enumerated candidate list
MaxCands == 3
\* longest enumerated list of contours
MaxContours == 3
\* loop iterations of _normalize_angle followed in one call
MaxIterations == 4
\* calls made on the DigitalPersonaInterface object
MaxCalls == 4
\* height and width of the binary images skeletonized
MaxHeight == 3
MaxWidth == 3
\* iterations of the loop of _skeletonize followed in one call
MaxLoops == 12

----------------------------------------------------------------------------
(* Fixed-point grain and program constants *)

\* distances and angles are carried in 1/Scale of a pixel / of a radian
Scale == 100

\* self.max_distance_threshold = 50 (pixels)
max_distance_threshold == 50
\* self.orientation_tolerance = 0.5 (radians), in 1/Scale radians
orientation_tolerance == 50
\* np.pi, in 1/Scale radians
PI == 314
\* orientation_diff * 20 in combined_score
OrientationScoreWeight == 20

\* confidence weights 0.4, 0.3, 0.3 and bonuses 0.1, 0.05, in twentieths
WeightDen == 20
RatioWeight == 8
DistanceWeight == 6
OrientationWeight == 6
BonusHigh == 2
BonusLow == 1
\* match_count >= 15 / match_count >= 10
BonusHighCount == 15
BonusLowCount == 10

----------------------------------------------------------------------------
(* Exact fractions *)

Max(a, b) == IF a >= b THEN a ELSE b
Min(a, b) == IF a <= b THEN a ELSE b
Abs(a) == IF a < 0 THEN -a ELSE a

RECURSIVE Gcd(_, _)
Gcd(a, b) == IF b = 0 THEN a ELSE Gcd(b, a % b)

\* the fraction n/d (n >= 0, d > 0) in lowest terms
Rat(n, d) == LET g == Gcd(n, d) IN [num |-> n \div g, den |-> d \div g]

RatZero == Rat(0, 1)
RatOne == Rat(1, 1)

\* an/ad < bn/bd for non-negative fractions, by continued-fraction expansion
\* (no product is formed, so no 32-bit overflow)
RECURSIVE FracLess(_, _, _, _)
FracLess(an, ad, bn, bd) ==
    LET qa == an \div ad
        qb == bn \div bd
        ra == an % ad
        rb == bn % bd
    IN  IF qa # qb THEN qa < qb
        ELSE IF rb = 0 THEN FALSE
        ELSE IF ra = 0 THEN TRUE
        ELSE FracLess(bd, rb, ad, ra)

RatLess(a, b) == FracLess(a.num, a.den, b.num, b.den)
RatLeq(a, b) == ~RatLess(b, a)
RatMin(a, b) == IF RatLess(b, a) THEN b ELSE a

\* floor of the square root, by bisection on lo..hi (lo*lo <= n < (hi+1)^2)
RECURSIVE IsqrtIn(_, _, _)
IsqrtIn(n, lo, hi) ==
    IF lo = hi THEN lo
    ELSE LET mid == (lo + hi + 1) \div 2
         IN  IF mid * mid <= n THEN IsqrtIn(n, mid, hi) ELSE IsqrtIn(n, lo, mid - 1)

Isqrt(n) == IsqrtIn(n, 0, 46340)

\* square root rounded to nearest: floor(sqrt(n) + 1/2) = (floor(sqrt(4n)) + 1) div 2
RoundSqrt(n) == (Isqrt(4 * n) + 1) \div 2

----------------------------------------------------------------------------
(* Minutiae.  An entry of a decoded 'minutiae' list is a record            *)
(* [x, y, orientation, wf]; wf = FALSE stands for an entry that is not a   *)
(* dict with 'x' and 'y' (m['x'] raises on it).                            *)

Minutia(px, py, o) == [x |-> px, y |-> py, orientation |-> o, wf |-> TRUE]
BadEntry == [x |-> 0, y |-> 0, orientation |-> 0, wf |-> FALSE]

\* np.linalg.norm(point1 - point2), in 1/Scale pixels
Distance(p, q) ==
    RoundSqrt(Scale * Scale * ((p.x - q.x) * (p.x - q.x) + (p.y - q.y) * (p.y - q.y)))

\* while angle > np.pi: angle -= 2 * np.pi
RECURSIVE NormalizeDown(_)
NormalizeDown(angle) == IF angle > PI THEN NormalizeDown(angle - 2 * PI) ELSE angle

\* while angle < -np.pi: angle += 2 * np.pi
RECURSIVE NormalizeUp(_)
NormalizeUp(angle) == IF angle < -PI THEN NormalizeUp(angle + 2 * PI) ELSE angle

\* _normalize_angle
NormalizeAngle(angle) == NormalizeUp(NormalizeDown(angle))

\* abs(self._normalize_angle(orientation1 - orientation2))
OrientationDiff(p, q) == Abs(NormalizeAngle(p.orientation - q.orientation))

\* if j in used_indices2: continue
IsUsedNever(j, used) == FALSE
IsUsed(j, used) == j \in used

\* if distance > self.max_distance_threshold: continue
DistanceTooLargeNever(distance) == FALSE
DistanceTooLarge(distance) == distance > max_distance_threshold * Scale

\* if orientation_diff > self.orientation_tolerance: continue
OrientationTooLarge(orientation_diff) == orientation_diff > orientation_tolerance

\* combined_score = distance + (orientation_diff * 20)
CombinedScore(distance, orientation_diff) ==
    distance + orientation_diff * OrientationScoreWeight

\* float('inf')
Inf == -1

\* if combined_score < best_score
IsBetterReversed(combined_score, best_score) ==
    best_score = Inf \/ combined_score > best_score
IsBetter(combined_score, best_score) ==
    best_score = Inf \/ combined_score < best_score

\* the inner loop of _find_minutiae_correspondences for A[ii], from index j on;
\* best is <<>> (None) or the tuple <<i, j, distance, orientation_diff>>
RECURSIVE InnerLoop(_, _, _, _, _, _, _)
InnerLoop(A, B, ii, j, used, best, best_score) ==
    IF j > Len(B) THEN best
    ELSE IF IsUsed(j, used) THEN InnerLoop(A, B, ii, j + 1, used, best, best_score)
    ELSE LET distance == Distance(A[ii], B[j])
             orientation_diff == OrientationDiff(A[ii], B[j])
             combined_score == CombinedScore(distance, orientation_diff)
         IN  IF DistanceTooLarge(distance)
                 THEN InnerLoop(A, B, ii, j + 1, used, best, best_score)
             ELSE IF OrientationTooLarge(orientation_diff)
                 THEN InnerLoop(A, B, ii, j + 1, used, best, best_score)
             ELSE IF IsBetter(combined_score, best_score)
                 THEN InnerLoop(A, B, ii, j + 1, used,
                                <<ii, j, distance, orientation_diff>>, combined_score)
             ELSE InnerLoop(A, B, ii, j + 1, used, best, best_score)

\* one iteration of the outer loop: the new [matches, used]
OuterStep(A, B, ii, st) ==
    LET best == InnerLoop(A, B, ii, 1, st.used, <<>>, Inf)
    IN  IF best # <<>>
            THEN [matches |-> Append(st.matches, best), used |-> st.used \cup {best[2]}]
            ELSE st

\* _find_minutiae_correspondences, from outer index ii on
RECURSIVE OuterLoop(_, _, _, _)
OuterLoop(A, B, ii, st) ==
    IF ii > Len(A) THEN st.matches ELSE OuterLoop(A, B, ii + 1, OuterStep(A, B, ii, st))

FindMinutiaeCorrespondences(A, B) == OuterLoop(A, B, 1, [matches |-> <<>>, used |-> {}])

\* distance_score = max(0, 1 - distance / max_distance_threshold), times
\* max_distance_threshold * Scale
DistanceScore(distance) == Max(0, max_distance_threshold * Scale - distance)

\* orientation_score = max(0, 1 - abs(orientation_diff) / orientation_tolerance),
\* times orientation_tolerance
OrientationScore(orientation_diff) == Max(0, orientation_tolerance - Abs(orientation_diff))

RECURSIVE SumDistanceScore(_)
SumDistanceScore(ms) ==
    IF ms = <<>> THEN 0 ELSE DistanceScore(Head(ms)[3]) + SumDistanceScore(Tail(ms))

RECURSIVE SumOrientationScore(_)
SumOrientationScore(ms) ==
    IF ms = <<>> THEN 0 ELSE OrientationScore(Head(ms)[4]) + SumOrientationScore(Tail(ms))

\* the bonus for higher match counts, in twentieths
BonusFlat(match_count) == IF match_count >= BonusLowCount THEN BonusLow ELSE 0
Bonus(match_count) ==
    IF match_count >= BonusHighCount THEN BonusHigh
    ELSE IF match_count >= BonusLowCount THEN BonusLow
    ELSE 0

\* total_minutiae = max(len(minutiae1), len(minutiae2))
TotalMinutiaeSum(len1, len2) == len1 + len2
TotalMinutiae(len1, len2) == Max(len1, len2)

\* return min(confidence, 1.0)
ClampNone(c) == c
Clamp(c) == RatMin(c, RatOne)

\* lines 118-157: the confidence of a non-empty list of matches
ConfidenceOfMatches(ms, len1, len2) ==
    LET match_count == Len(ms)
        total_minutiae == TotalMinutiae(len1, len2)
        DT == max_distance_threshold * Scale
        OT == orientation_tolerance
        den == WeightDen * total_minutiae * match_count * DT * OT
        num == RatioWeight * match_count * match_count * DT * OT
               + DistanceWeight * SumDistanceScore(ms) * total_minutiae * OT
               + OrientationWeight * SumOrientationScore(ms) * total_minutiae * DT
               + Bonus(match_count) * total_minutiae * match_count * DT * OT
    IN  Clamp(Rat(num, den))

\* if not minutiae1 or not minutiae2
EitherEmptyBoth(m1, m2) == m1 = <<>> /\ m2 = <<>>
EitherEmpty(m1, m2) == m1 = <<>> \/ m2 = <<>>

\* the list comprehensions of lines 100-101 raise on a malformed entry
Raises(ms) == \E k \in 1..Len(ms) : ~ms[k].wf

\* _calculate_match_confidence
CalculateMatchConfidence(m1, m2) ==
    IF EitherEmpty(m1, m2) THEN RatZero
    ELSE IF Raises(m1) \/ Raises(m2) THEN RatZero
    ELSE LET ms == FindMinutiaeCorrespondences(m1, m2)
         IN  IF Len(ms) = 0 THEN RatZero ELSE ConfidenceOfMatches(ms, Len(m1), Len(m2))

----------------------------------------------------------------------------
(* Inputs *)

\* minutiae the enumerated lists are made of: two points within both gates
\* of each other and one far from both
Pool == { Minutia(0, 0, 0), Minutia(10, 10, 30), Minutia(100, 100, 0) }

SeqsUpTo(S, n) == UNION { [1..k -> S] : k \in 0..n }

\* n minutiae on a line, 3 pixels apart, starting after x = off
Line(n, off) == [k \in 1..n |-> Minutia(off + 3 * k, 0, 0)]

\* lists long enough for the match-count bonuses
\* n minutiae on the same line, all turned by o
Turned(n, o) == [k \in 1..n |-> Minutia(3 * k, 0, o)]

LongLists ==
    { Line(n, off) : n \in {BonusLowCount, BonusHighCount}, off \in {0, 1} }
    \cup { Turned(n, 40) : n \in {BonusLowCount, BonusHighCount} }

\* lists with an entry the list comprehensions raise on
MalformedLists == { <<BadEntry>>, <<Minutia(0, 0, 0), BadEntry>> }

\* lists at the edges of the gates: the point of the self-match scenario,
\* distance exactly 50 and just above it from (0,0), orientation exactly 0.5
\* and just above it from 0, orientations either side of +-pi, and two lists
\* whose greedy pairing differs with the argument order, a point at both
\* edges at once from (0,0), and a list of which only one point can pair
EdgeLists ==
    { <<Minutia(10, 10, 0)>>,
      <<Minutia(30, 40, 0)>>, <<Minutia(50, 1, 0)>>,
      <<Minutia(0, 0, 50)>>, <<Minutia(0, 0, 51)>>,
      <<Minutia(0, 0, 300)>>, <<Minutia(0, 0, -300)>>,
      <<Minutia(0, 0, 0), Minutia(0, 0, 50)>>,
      <<Minutia(0, 0, 30), Minutia(0, 0, 90)>>,
      <<Minutia(30, 40, 50)>>, <<Minutia(0, 0, 0), Minutia(100, 100, 0)>> }

MinutiaeLists == SeqsUpTo(Pool, MaxLen) \cup LongLists \cup MalformedLists \cup EdgeLists

----------------------------------------------------------------------------
(* _calculate_match_confidence, the correspondence search one outer         *)
(* iteration at a time                                                      *)

\* if not minutiae1 or not minutiae2: return 0.0
CalcEmpty ==
    /\ cpc = "idle"
    /\ \E m1 \in MinutiaeLists, m2 \in MinutiaeLists :
        /\ EitherEmpty(m1, m2)
        /\ minutiae1' = m1
        /\ minutiae2' = m2
    /\ confidence' = RatZero
    /\ cpc' = "done"
    /\ UNCHANGED <<i, matches, used_indices2, match_threshold, matchVars, procVars, auxVars>>

\* an exception in lines 100-103, caught at line 159: return 0.0
CalcRaises ==
    /\ cpc = "idle"
    /\ \E m1 \in MinutiaeLists, m2 \in MinutiaeLists :
        /\ ~EitherEmpty(m1, m2)
        /\ Raises(m1) \/ Raises(m2)
        /\ minutiae1' = m1
        /\ minutiae2' = m2
    /\ confidence' = RatZero
    /\ cpc' = "done"
    /\ UNCHANGED <<i, matches, used_indices2, match_threshold, matchVars, procVars, auxVars>>

\* entry of _find_minutiae_correspondences: matches = [], used_indices2 = set()
CalcStart ==
    /\ cpc = "idle"
    /\ \E m1 \in MinutiaeLists, m2 \in MinutiaeLists :
        /\ ~EitherEmpty(m1, m2)
        /\ ~Raises(m1) /\ ~Raises(m2)
        /\ minutiae1' = m1
        /\ minutiae2' = m2
    /\ i' = 1
    /\ matches' = <<>>
    /\ used_indices2' = {}
    /\ cpc' = "search"
    /\ UNCHANGED <<confidence, match_threshold, matchVars, procVars, auxVars>>

\* one iteration of the outer loop (lines 173-204)
SearchStep ==
    /\ cpc = "search"
    /\ i <= Len(minutiae1)
    /\ LET st == OuterStep(minutiae1, minutiae2, i,
                           [matches |-> matches, used |-> used_indices2])
       IN  /\ matches' = st.matches
           /\ used_indices2' = st.used
    /\ i' = i + 1
    /\ UNCHANGED <<cpc, minutiae1, minutiae2, confidence, match_threshold, matchVars, procVars, auxVars>>

\* if len(matches) == 0: return 0.0
CalcNoMatches ==
    /\ cpc = "search"
    /\ i > Len(minutiae1)
    /\ Len(matches) = 0
    /\ confidence' = RatZero
    /\ cpc' = "done"
    /\ UNCHANGED <<minutiae1, minutiae2, i, matches, used_indices2, match_threshold, matchVars, procVars, auxVars>>

\* lines 118-157
CalcReturn ==
    /\ cpc = "search"
    /\ i > Len(minutiae1)
    /\ Len(matches) # 0
    /\ confidence' = ConfidenceOfMatches(matches, Len(minutiae1), Len(minutiae2))
    /\ cpc' = "done"
    /\ UNCHANGED <<minutiae1, minutiae2, i, matches, used_indices2, match_threshold, matchVars, procVars, auxVars>>

\* self.match_threshold = 0.7
DefaultMatchThreshold == Rat(7, 10)

\* no template decoded
NoneValue == [kind |-> "null", has_minutiae |-> FALSE, minutiae |-> <<>>]
\* Python's None as a match result
NoMatch == [none |-> TRUE, studentId |-> 0, confidence |-> RatZero]

\* no template passed yet
NoTemplate == [enc |-> "empty", value |-> NoneValue]

\* no verify_match call has returned
VerifyIdle == [success |-> FALSE, match |-> FALSE, confidence |-> RatZero, error |-> "not called"]

\* no image passed yet
NoImage ==
    [data |-> "none", shape |-> <<0, 0>>, contours |-> <<>>,
     contrast |-> 0, sharpness |-> 0, edge_density |-> 0]

\* no process_fingerprint call has returned
ProcessIdle ==
    [success |-> FALSE, error |-> "not called", template |-> NoTemplate,
     quality |-> RatZero, minutiae_count |-> 0]

\* no verify_quality call has returned
QualityIdle ==
    [is_valid |-> FALSE, error |-> "not called", quality |-> RatZero, minutiae_count |-> 0]

\* no extract_features call has returned
FeaturesIdle ==
    [success |-> FALSE, error |-> "not called", minutiae_count |-> 0, quality |-> RatZero,
     image_width |-> 0, image_height |-> 0, minutiae_density |-> RatZero,
     average_orientation |-> RatZero, version |-> "unknown"]

\* float64 angles.  Small(v) is the angle of v/Scale radians, on which the
\* arithmetic of _normalize_angle is exact at the model's grain; Big(v) is
\* the float64 v * 1e17 radians (v # 0), so large that 2 * np.pi, or any
\* Small angle, is less than half the spacing of the float64 values around
\* it: adding or subtracting one returns the same float64
Small(v) == [big |-> FALSE, v |-> v]
Big(v) == [big |-> TRUE, v |-> v]

\* a - b in float64
FloatSub(a, b) ==
    IF ~a.big /\ ~b.big THEN Small(a.v - b.v)
    ELSE IF a.big /\ ~b.big THEN a
    ELSE IF ~a.big /\ b.big THEN Big(-b.v)
    ELSE IF a.v = b.v THEN Small(0)
    ELSE Big(a.v - b.v)

\* a + b in float64
FloatAdd(a, b) == FloatSub(a, [big |-> b.big, v |-> -b.v])

\* a > b
FloatGreater(a, b) ==
    IF a.big = b.big THEN a.v > b.v
    ELSE IF a.big THEN a.v > 0
    ELSE b.v < 0

\* abs(a)
FloatAbs(a) == [big |-> a.big, v |-> Abs(a.v)]

\* 2 * np.pi
TwoPi == Small(2 * PI)

\* no orientation difference has been evaluated
NormalizeIdle ==
    /\ npc = "idle"
    /\ orientation1 = Small(0)
    /\ orientation2 = Small(0)
    /\ norm_angle = Small(0)
    /\ iterations = 0
    /\ diff_result = Small(0)

\* ---- utils/digitalpersona.py: DigitalPersonaInterface, and the /capture
\* route of app.py.  A value returned by a call, by the keys it carries
ScannerReturn(op, ok, err, img, tpl, code) ==
    [op |-> op, success |-> ok, error |-> err, has_image |-> img,
     has_template |-> tpl, status |-> code]

\* no call has returned
NoReturn == ScannerReturn("none", FALSE, "not called", FALSE, FALSE, 0)

\* DigitalPersonaInterface.__init__ (lines 21-22), no call made
ScannerConstructed ==
    /\ is_initialized = FALSE
    /\ scanner_available = FALSE
    /\ calls = <<>>
    /\ last_return = NoReturn

\* ---- _skeletonize (services/fingerprint_processor.py).  A binary image
\* is the set of its foreground pixels (value 255), a pixel <<row, column>>
\* no _skeletonize call has been made
SkeletonIdle ==
    /\ spc = "idle"
    /\ binary = {}
    /\ image = {}
    /\ eroded = {}
    /\ temp = {}
    /\ skeleton = {}
    /\ loops = 0

AuxIdle ==
    NormalizeIdle /\ ScannerConstructed /\ platform = "linux" /\ SkeletonIdle

ProcessorIdle ==
    /\ ppc = "idle"
    /\ image_data = NoImage
    /\ contour_idx = 0
    /\ minutiae = <<>>
    /\ extract_raised = FALSE
    /\ quality = RatZero
    /\ process_result = ProcessIdle
    /\ template_arg = NoTemplate
    /\ quality_result = QualityIdle
    /\ features_result = FeaturesIdle

MatchIdle ==
    /\ pc = "idle"
    /\ input_template = NoTemplate
    /\ templates = <<>>
    /\ idx = 0
    /\ best_match = NoMatch
    /\ best_confidence = RatZero
    /\ result = NoMatch
    /\ template1 = NoTemplate
    /\ template2 = NoTemplate
    /\ verify_result = VerifyIdle

InitConfidence ==
    /\ match_threshold = DefaultMatchThreshold
    /\ cpc = "idle"
    /\ minutiae1 = <<>>
    /\ minutiae2 = <<>>
    /\ i = 0
    /\ matches = <<>>
    /\ used_indices2 = {}
    /\ confidence = RatZero
    /\ MatchIdle
    /\ ProcessorIdle
    /\ AuxIdle

NextConfidence ==
    \/ CalcEmpty
    \/ CalcRaises
    \/ CalcStart
    \/ SearchStep
    \/ CalcNoMatches
    \/ CalcReturn

SpecConfidence ==
    InitConfidence /\ [][NextConfidence]_vars

----------------------------------------------------------------------------
(* Templates.  A template string is modelled by what decoding makes of it: *)
(* enc says whether base64.b64decode, .decode() and json.loads succeed     *)
(* ("empty" is the empty string), value is the JSON value it holds: kind   *)
(* is its Python type and truthiness, has_minutiae and minutiae are the    *)
(* 'minutiae' key of a dict.  enc = "ok" is a string of the base64         *)
(* alphabet, correctly padded, of UTF-8 JSON text; "junk_base64" is such a *)
(* string with characters outside the alphabet in it (b64decode is called  *)
(* without validate=True and discards them); "bad_base64" is a string on   *)
(* which b64decode raises (incorrect padding).                             *)

Template(e, k, h, ms) ==
    [enc |-> e, value |-> [kind |-> k, has_minutiae |-> h, minutiae |-> ms]]

\* a dict with a 'minutiae' key
ObjectValue(ms) == [kind |-> "object", has_minutiae |-> TRUE, minutiae |-> ms]
EncodedObject(ms) == [enc |-> "ok", value |-> ObjectValue(ms)]

\* base64.b64decode(template).decode() and json.loads raise no exception
Decodes(enc) == enc \in {"ok", "junk_base64"}

\* _decode_template: the JSON value, or None on any exception
DecodeTemplate(template) ==
    IF Decodes(template.enc) THEN template.value ELSE NoneValue

\* Python truthiness of a decoded value: None, false, 0, "", [] and {} are falsy
Truthy(value) == value.kind \in {"true", "number", "string", "array", "object"}

\* the value has a .get method
IsDict(value) == value.kind \in {"object", "empty_object"}

\* data.get('minutiae', [])
GetMinutiae(value) == IF value.has_minutiae THEN value.minutiae ELSE <<>>

\* a candidate of the templates list; studentId 0 stands for a missing or
\* falsy studentId
Candidate(id, t) == [studentId |-> id, template |-> t]

Some(id, c) == [none |-> FALSE, studentId |-> id, confidence |-> c]

\* what the loop body does with a candidate: "skip" (a continue), "raise"
\* (.get on a decoded value that is not a dict) or "compare"
CandidateOutcome(template_info) ==
    LET stored_data == DecodeTemplate(template_info.template)
    IN  IF template_info.studentId = 0 \/ template_info.template.enc = "empty" THEN "skip"
        ELSE IF ~Truthy(stored_data) THEN "skip"
        ELSE IF ~IsDict(stored_data) THEN "raise"
        ELSE IF GetMinutiae(stored_data) = <<>> THEN "skip"
        ELSE "compare"

\* if confidence > best_confidence and confidence >= self.match_threshold
UpdatesBest(c, best_c, threshold) == RatLess(best_c, c) /\ RatLeq(threshold, c)

\* the body of the candidate loop (lines 47-73) on the loop state
\* st = [best_match, best_confidence, raised]
LoopBody(st, template_info, input_minutiae, threshold) ==
    LET outcome == CandidateOutcome(template_info)
        c == CalculateMatchConfidence(
                 input_minutiae, GetMinutiae(DecodeTemplate(template_info.template)))
    IN  IF outcome = "skip" THEN st
        ELSE IF outcome = "raise" THEN [st EXCEPT !.raised = TRUE]
        ELSE IF UpdatesBest(c, st.best_confidence, threshold)
            THEN [best_match |-> Some(template_info.studentId, c),
                  best_confidence |-> c, raised |-> FALSE]
        ELSE st

\* the candidate loop from index k on; an exception leaves the loop
RECURSIVE CandidateLoop(_, _, _, _, _)
CandidateLoop(st, ts, k, input_minutiae, threshold) ==
    IF st.raised \/ k > Len(ts) THEN st
    ELSE CandidateLoop(LoopBody(st, ts[k], input_minutiae, threshold),
                       ts, k + 1, input_minutiae, threshold)

\* what match_fingerprint does with its input template: "none" (lines 33-40),
\* "raise" (.get on a value that is not a dict) or "search"
InputOutcome(template) ==
    LET input_data == DecodeTemplate(template)
    IN  IF ~Truthy(input_data) THEN "none"
        ELSE IF ~IsDict(input_data) THEN "raise"
        ELSE IF GetMinutiae(input_data) = <<>> THEN "none"
        ELSE "search"

\* match_fingerprint; the except clause of line 82 returns None
MatchFingerprint(template, ts, threshold) ==
    IF InputOutcome(template) # "search" THEN NoMatch
    ELSE LET st == CandidateLoop(
                       [best_match |-> NoMatch, best_confidence |-> RatZero, raised |-> FALSE],
                       ts, 1, GetMinutiae(DecodeTemplate(template)), threshold)
         IN  IF st.raised THEN NoMatch ELSE st.best_match

\* is_match = confidence >= self.match_threshold
IsMatch(c, threshold) == RatLeq(threshold, c)

\* confidence = self._calculate_match_confidence(minutiae1, minutiae2)
VerifyConfidenceSwapped(m1, m2) == CalculateMatchConfidence(m2, m1)
VerifyConfidence(m1, m2) == CalculateMatchConfidence(m1, m2)

VerifyFailure(e) == [success |-> FALSE, match |-> FALSE, confidence |-> RatZero, error |-> e]

\* verify_match
VerifyMatch(t1, t2, threshold) ==
    LET data1 == DecodeTemplate(t1)
        data2 == DecodeTemplate(t2)
    IN  IF ~Truthy(data1) \/ ~Truthy(data2) THEN VerifyFailure("Failed to decode templates")
        ELSE IF ~IsDict(data1) \/ ~IsDict(data2) THEN VerifyFailure("Verification failed")
        ELSE IF GetMinutiae(data1) = <<>> \/ GetMinutiae(data2) = <<>>
            THEN VerifyFailure("No minutiae found in templates")
        ELSE LET c == VerifyConfidence(GetMinutiae(data1), GetMinutiae(data2))
             IN  [success |-> TRUE, match |-> IsMatch(c, threshold),
                  confidence |-> c, error |-> "none"]

----------------------------------------------------------------------------
(* Inputs of match_fingerprint and verify_match *)

\* the minutiae of the input template of the searches
InputMinutiae == <<Minutia(0, 0, 0)>>

\* minutiae of stored templates; against InputMinutiae their confidences are
\* 1, 7/10 (orientation exactly at the tolerance), 0 (too far), 4/5 (one of
\* two points paired) and 0 (a malformed entry)
StoredMinutiae ==
    { <<Minutia(0, 0, 0)>>, <<Minutia(0, 0, 50)>>, <<Minutia(100, 100, 0)>>,
      <<Minutia(0, 0, 0), Minutia(100, 100, 0)>>, <<BadEntry>> }

\* templates that are no usable record: not base64, not JSON, JSON null, a
\* JSON array, a dict without 'minutiae', a dict with an empty 'minutiae'
CorruptTemplates ==
    { [enc |-> "bad_base64", value |-> NoneValue],
      [enc |-> "bad_json", value |-> NoneValue],
      Template("ok", "null", FALSE, <<>>),
      Template("ok", "array", FALSE, <<>>),
      Template("ok", "object", FALSE, <<>>),
      Template("ok", "object", TRUE, <<>>) }

\* further strings that do not decode: bytes that are not UTF-8, the empty
\* string, and a JSON string
OtherCorruptTemplates ==
    { [enc |-> "bad_utf8", value |-> NoneValue],
      [enc |-> "empty", value |-> NoneValue],
      Template("ok", "string", FALSE, <<>>) }

TemplatePool == { EncodedObject(ms) : ms \in StoredMinutiae } \cup CorruptTemplates

\* a candidate with or without a studentId
CandidateShapes ==
    { [has_id |-> TRUE, template |-> t] : t \in TemplatePool }
    \cup { [has_id |-> FALSE, template |-> EncodedObject(InputMinutiae)] }

\* the k-th candidate of a list carries studentId k
MakeCandidates(shapes) ==
    [k \in 1..Len(shapes) |->
        Candidate(IF shapes[k].has_id THEN k ELSE 0, shapes[k].template)]

CandidateLists == { MakeCandidates(shapes) : shapes \in SeqsUpTo(CandidateShapes, MaxCands) }

InputTemplates ==
    { EncodedObject(InputMinutiae),
      [enc |-> "bad_base64", value |-> NoneValue],
      Template("ok", "array", FALSE, <<>>),
      Template("ok", "object", FALSE, <<>>) }

\* templates of verify_match: the pool and two whose confidence depends on
\* the argument order
VerifyTemplates ==
    TemplatePool \cup OtherCorruptTemplates
    \cup { EncodedObject(<<Minutia(0, 0, 0), Minutia(0, 0, 50)>>),
           EncodedObject(<<Minutia(0, 0, 30), Minutia(0, 0, 90)>>) }

\* match_threshold is a plain attribute, 0.7 after construction, that a
\* caller configures; the values Config.validate_config admits
\* (0 <= MATCH_THRESHOLD <= 1) are represented by both ends and the default
AdmissibleThresholds == { RatZero, DefaultMatchThreshold, RatOne }

----------------------------------------------------------------------------
(* match_fingerprint, one candidate at a time, and verify_match *)

\* lines 33-40: the input template is undecodable or has no minutiae
MatchInputNone ==
    /\ pc = "idle"
    /\ \E t \in InputTemplates, ts \in CandidateLists :
        /\ InputOutcome(t) = "none"
        /\ input_template' = t
        /\ templates' = ts
    /\ result' = NoMatch
    /\ pc' = "done"
    /\ UNCHANGED <<idx, best_match, best_confidence, template1, template2, verify_result,
                   match_threshold, confVars, procVars, auxVars>>

\* line 37 raises on an input that decodes to no dict; line 82 returns None
MatchInputRaises ==
    /\ pc = "idle"
    /\ \E t \in InputTemplates, ts \in CandidateLists :
        /\ InputOutcome(t) = "raise"
        /\ input_template' = t
        /\ templates' = ts
    /\ result' = NoMatch
    /\ pc' = "done"
    /\ UNCHANGED <<idx, best_match, best_confidence, template1, template2, verify_result,
                   match_threshold, confVars, procVars, auxVars>>

\* lines 42-43: best_match = None, best_confidence = 0.0
MatchStart ==
    /\ pc = "idle"
    /\ \E t \in InputTemplates, ts \in CandidateLists :
        /\ InputOutcome(t) = "search"
        /\ input_template' = t
        /\ templates' = ts
    /\ best_match' = NoMatch
    /\ best_confidence' = RatZero
    /\ idx' = 1
    /\ pc' = "loop"
    /\ UNCHANGED <<result, template1, template2, verify_result, match_threshold, confVars, procVars, auxVars>>

LoopState == [best_match |-> best_match, best_confidence |-> best_confidence, raised |-> FALSE]

LoopInputMinutiae == GetMinutiae(DecodeTemplate(input_template))

\* a continue of lines 50-60
LoopSkip ==
    /\ pc = "loop"
    /\ idx <= Len(templates)
    /\ CandidateOutcome(templates[idx]) = "skip"
    /\ idx' = idx + 1
    /\ UNCHANGED <<pc, input_template, templates, best_match, best_confidence, result,
                   template1, template2, verify_result, match_threshold, confVars, procVars, auxVars>>

\* line 58 raises on a stored template that decodes to no dict; line 82
\* returns None
LoopRaiseKeepsBest ==
    /\ pc = "loop"
    /\ idx <= Len(templates)
    /\ CandidateOutcome(templates[idx]) = "raise"
    /\ result' = best_match
    /\ pc' = "done"
    /\ UNCHANGED <<input_template, templates, idx, best_match, best_confidence,
                   template1, template2, verify_result, match_threshold, confVars, procVars, auxVars>>
LoopRaise ==
    /\ pc = "loop"
    /\ idx <= Len(templates)
    /\ CandidateOutcome(templates[idx]) = "raise"
    /\ result' = NoMatch
    /\ pc' = "done"
    /\ UNCHANGED <<input_template, templates, idx, best_match, best_confidence,
                   template1, template2, verify_result, match_threshold, confVars, procVars, auxVars>>

\* lines 63-73
LoopCompare ==
    /\ pc = "loop"
    /\ idx <= Len(templates)
    /\ CandidateOutcome(templates[idx]) = "compare"
    /\ LET st == LoopBody(LoopState, templates[idx], LoopInputMinutiae, match_threshold)
       IN  /\ best_match' = st.best_match
           /\ best_confidence' = st.best_confidence
    /\ idx' = idx + 1
    /\ UNCHANGED <<pc, input_template, templates, result, template1, template2,
                   verify_result, match_threshold, confVars, procVars, auxVars>>

\* return best_match
MatchReturn ==
    /\ pc = "loop"
    /\ idx > Len(templates)
    /\ result' = best_match
    /\ pc' = "done"
    /\ UNCHANGED <<input_template, templates, idx, best_match, best_confidence,
                   template1, template2, verify_result, match_threshold, confVars, procVars, auxVars>>

\* a call of verify_match
VerifyCall ==
    /\ pc = "idle"
    /\ \E t1 \in VerifyTemplates, t2 \in VerifyTemplates :
        /\ template1' = t1
        /\ template2' = t2
        /\ verify_result' = VerifyMatch(t1, t2, match_threshold)
    /\ pc' = "verified"
    /\ UNCHANGED <<input_template, templates, idx, best_match, best_confidence, result,
                   match_threshold, confVars, procVars, auxVars>>

Init ==
    /\ match_threshold \in AdmissibleThresholds
    /\ cpc = "idle"
    /\ minutiae1 = <<>>
    /\ minutiae2 = <<>>
    /\ i = 0
    /\ matches = <<>>
    /\ used_indices2 = {}
    /\ confidence = RatZero
    /\ MatchIdle
    /\ ProcessorIdle
    /\ AuxIdle

Next ==
    \/ MatchInputNone
    \/ MatchInputRaises
    \/ MatchStart
    \/ LoopSkip
    \/ LoopRaise
    \/ LoopCompare
    \/ MatchReturn
    \/ VerifyCall

Spec == Init /\ [][Next]_vars

----------------------------------------------------------------------------
(* Template generation (services/fingerprint_processor.py, class           *)
(* FingerprintProcessor).                                                  *)
(*                                                                         *)
(* A template record.  The value of a template that is a dict carries,     *)
(* besides kind and the 'minutiae' key, its other keys: has_version /      *)
(* version, quality_kind ("missing" | "number" | "string") / quality (a    *)
(* fraction), shape_kind ("missing" | "tuple" | "list") / image_shape      *)
(* (<<height, width>>), count_kind ("missing" | "number") / minutiae_count *)
(* and has_created_at (the key 'created_at', always None / null).  The     *)
(* 'type' of a minutia is always 'bifurcation' and is not carried.         *)

\* self.min_quality_threshold = 0.6
min_quality_threshold == Rat(3, 5)
\* self.template_version = "1.0"
template_version == "1.0"
\* minutiae_count >= 10
MinMinutiaeCount == 10
\* minutiae = minutiae[:50]
MaxMinutiae == 50
\* if len(contour) > 10
MinContourLength == 10
\* min(len(minutiae) / 30.0, 1.0)
NormalMinutiae == 30
\* weights = [0.3, 0.25, 0.25, 0.2], in twentieths
QualityWeightDen == 20
MinutiaeWeight == 6
ContrastWeight == 5
SharpnessWeight == 5
EdgeWeight == 4
\* len(minutiae) / max(1, height * width) * 10000
DensityScale == 10000

\* a JSON object with the five keys of a template
FullRecord(v, q, shape, ms, count) ==
    [kind |-> "object", has_minutiae |-> TRUE, minutiae |-> ms,
     has_version |-> TRUE, version |-> v,
     quality_kind |-> "number", quality |-> q,
     shape_kind |-> "list", image_shape |-> shape,
     count_kind |-> "number", minutiae_count |-> count,
     has_created_at |-> FALSE]

\* the dict template_data of _generate_template: image_shape is the tuple
\* enhanced_image.shape, and there is a sixth key 'created_at': None
TemplateData(ms, q, shape) ==
    [FullRecord(template_version, q, shape, ms, Len(ms))
        EXCEPT !.shape_kind = "tuple", !.has_created_at = TRUE]

\* json.dumps followed by json.loads: a tuple is written as an array and
\* read back as a list; strings, ints, None and floats (written by repr)
\* come back as they were
JsonDumps(value) ==
    [value EXCEPT !.shape_kind = IF @ = "tuple" THEN "list" ELSE @]

\* _generate_template: base64 of the JSON text of template_data
GenerateTemplate(ms, q, shape) ==
    [enc |-> "ok", value |-> JsonDumps(TemplateData(ms, q, shape))]

\* FingerprintProcessor._decode_template: the JSON value, or None on any
\* exception
ProcessorDecodeTemplate(t) ==
    IF Decodes(t.enc) THEN t.value ELSE NoneValue

\* template_data.get('quality', 0.0)
GetQuality(value) == IF value.quality_kind = "missing" THEN RatZero ELSE value.quality

\* template_data.get('minutiae_count', 0)
GetMinutiaeCount(value) == IF value.count_kind = "missing" THEN 0 ELSE value.minutiae_count

\* template_data.get('version', 'unknown')
GetVersion(value) == IF value.has_version THEN value.version ELSE "unknown"

\* template_data.get('image_shape', default)
GetImageShape(value, default) ==
    IF value.shape_kind = "missing" THEN default ELSE value.image_shape

\* quality >= self.min_quality_threshold
MeetsQualityStrict(q) == RatLess(min_quality_threshold, q)
MeetsQuality(q) == RatLeq(min_quality_threshold, q)

\* minutiae_count >= 10
EnoughMinutiae(count) == count >= MinMinutiaeCount

QualityFailure(e) ==
    [is_valid |-> FALSE, error |-> e, quality |-> RatZero, minutiae_count |-> 0]

\* verify_quality; comparing a string quality with a float raises TypeError,
\* .get on a value that is not a dict raises AttributeError (line 282)
VerifyQuality(t) ==
    LET template_data == ProcessorDecodeTemplate(t)
    IN  IF ~Truthy(template_data) THEN QualityFailure("Invalid template format")
        ELSE IF ~IsDict(template_data) THEN QualityFailure("Failed to verify template")
        ELSE IF template_data.quality_kind = "string"
            THEN QualityFailure("Failed to verify template")
        ELSE [is_valid |-> MeetsQuality(GetQuality(template_data))
                           /\ EnoughMinutiae(GetMinutiaeCount(template_data)),
              error |-> "none",
              quality |-> GetQuality(template_data),
              minutiae_count |-> GetMinutiaeCount(template_data)]

RECURSIVE SumOrientation(_)
SumOrientation(ms) ==
    IF ms = <<>> THEN 0 ELSE Head(ms).orientation + SumOrientation(Tail(ms))

\* np.mean([m.get('orientation', 0) for m in minutiae]) if minutiae else 0,
\* in 1/Scale radians
AverageOrientation(ms) ==
    IF ms = <<>> THEN RatZero ELSE Rat(SumOrientation(ms), Len(ms))

FeaturesFailure(e) == [FeaturesIdle EXCEPT !.error = e]

\* extract_features
ExtractFeatures(t) ==
    LET template_data == ProcessorDecodeTemplate(t)
    IN  IF ~Truthy(template_data) THEN FeaturesFailure("Invalid template format")
        ELSE IF ~IsDict(template_data) THEN FeaturesFailure("Failed to extract features")
        ELSE LET ms == GetMinutiae(template_data)
                 shape0 == GetImageShape(template_data, <<0, 0>>)
                 shape1 == GetImageShape(template_data, <<1, 1>>)
             IN  [success |-> TRUE, error |-> "none",
                  minutiae_count |-> Len(ms),
                  quality |-> GetQuality(template_data),
                  image_width |-> shape0[2],
                  image_height |-> shape0[1],
                  minutiae_density |->
                      Rat(Len(ms) * DensityScale, Max(1, shape1[1] * shape1[2])),
                  average_orientation |-> AverageOrientation(ms),
                  version |-> GetVersion(template_data)]

----------------------------------------------------------------------------
(* process_fingerprint.  An image is modelled by what OpenCV makes of it:  *)
(* data says whether base64.b64decode and cv2.imdecode succeed, shape is   *)
(* the shape of the decoded image, contours is the list cv2.findContours   *)
(* returns for its skeleton, each contour by its number of boundary points *)
(* (len) and the number of vertices cv2.approxPolyDP gives it (points),    *)
(* and contrast, sharpness and edge_density are the factors 2 to 4 of      *)
(* _calculate_quality, in hundredths.                                      *)

Image(d, sh, cs, c, sp, e) ==
    [data |-> d, shape |-> sh, contours |-> cs,
     contrast |-> c, sharpness |-> sp, edge_density |-> e]

\* the minutiae appended for the first n vertices of contour number c
\* (x and y stand for the vertex, the orientation is that of a flat window)
ContourMinutiae(c, n) == [p \in 1..n |-> Minutia(p, c, 0)]

\* if len(contour) > 10
IsSmallContour(contour) == contour.len <= MinContourLength

\* minutiae = minutiae[:50]
KeepTop(ms) == SubSeq(ms, 1, Min(MaxMinutiae, Len(ms)))

\* min(max(quality, 0.0), 1.0)
ClampQuality(q) == RatMin(IF RatLess(q, RatZero) THEN RatZero ELSE q, RatOne)

\* _calculate_quality: the weighted sum of min(len(minutiae) / 30, 1),
\* contrast, sharpness and edge density, clamped
CalculateQuality(img, ms) ==
    ClampQuality(
        Rat(MinutiaeWeight * Min(Len(ms), NormalMinutiae) * Scale
                + NormalMinutiae * (ContrastWeight * img.contrast
                                    + SharpnessWeight * img.sharpness
                                    + EdgeWeight * img.edge_density),
            QualityWeightDen * NormalMinutiae * Scale))

\* if quality < self.min_quality_threshold
BelowThresholdNever(q) == FALSE
BelowThreshold(q) == RatLess(q, min_quality_threshold)

ProcessFailure(e) == [ProcessIdle EXCEPT !.error = e]

\* the dict returned at lines 65-70
ProcessSuccess(ms, q, shape) ==
    [success |-> TRUE, error |-> "none", template |-> GenerateTemplate(ms, q, shape),
     quality |-> q, minutiae_count |-> Len(ms)]

----------------------------------------------------------------------------
(* Inputs of process_fingerprint, verify_quality and extract_features *)

\* contours: one below the length filter, one just above it, and two whose
\* vertices add up to more than MaxMinutiae
ContourPool ==
    { [len |-> 8, points |-> 4], [len |-> 11, points |-> 4],
      [len |-> 40, points |-> 13], [len |-> 120, points |-> 30] }

ContourLists == SeqsUpTo(ContourPool, MaxContours)

\* <<contrast, sharpness, edge_density>> in hundredths: an image that scores
\* exactly 0.6 with 30 minutiae, one that scores 0.605 with 13, one that
\* never reaches 0.6, and a flat image
ImageStats == { <<20, 100, 0>>, <<50, 100, 50>>, <<50, 0, 0>>, <<0, 0, 0>> }

ImageShape == <<48, 64>>

Images ==
    { Image("ok", ImageShape, cs, st[1], st[2], st[3]) :
          cs \in ContourLists, st \in ImageStats }
    \cup { Image("bad_base64", <<0, 0>>, <<>>, 0, 0, 0),
           Image("not_image", <<0, 0>>, <<>>, 0, 0, 0) }

\* the keys of the records passed to verify_quality and extract_features
VersionOptions == { <<TRUE, template_version>>, <<TRUE, "2.0">>, <<FALSE, "">> }
QualityOptions ==
    { <<"number", Rat(1, 2)>>, <<"number", min_quality_threshold>>, <<"number", RatOne>>,
      <<"number", Rat(3, 2)>>, <<"number", Rat(-1, 1)>>,
      <<"missing", RatZero>>, <<"string", RatZero>> }
CountOptions == { <<"number", 9>>, <<"number", 10>>, <<"missing", 0>> }
ShapeOptions == { <<"list", ImageShape>>, <<"missing", <<0, 0>>>> }
MinutiaeOptions ==
    { <<TRUE, <<>>>>, <<TRUE, <<Minutia(0, 0, 0)>>>>, <<TRUE, Line(10, 0)>>, <<FALSE, <<>>>> }

QualityRecords ==
    { [kind |-> "object", has_minutiae |-> m[1], minutiae |-> m[2],
       has_version |-> v[1], version |-> v[2],
       quality_kind |-> q[1], quality |-> q[2],
       shape_kind |-> sh[1], image_shape |-> sh[2],
       count_kind |-> c[1], minutiae_count |-> c[2],
       has_created_at |-> ca] :
          m \in MinutiaeOptions, v \in VersionOptions, q \in QualityOptions,
          sh \in ShapeOptions, c \in CountOptions, ca \in BOOLEAN }

\* strings on which _decode_template returns None
UndecodableTemplates ==
    { [enc |-> e, value |-> NoneValue] : e \in {"bad_base64", "bad_utf8", "bad_json", "empty"} }

\* JSON text that is no dict with keys: null, an array, a string, {}
NonRecordTemplates ==
    { Template("ok", k, FALSE, <<>>) : k \in {"null", "array", "string", "empty_object"} }

QualityTemplates ==
    { [enc |-> e, value |-> r] : e \in {"ok", "junk_base64"}, r \in QualityRecords }
    \cup UndecodableTemplates \cup NonRecordTemplates

----------------------------------------------------------------------------
(* process_fingerprint, one stage and one contour at a time, verify_quality *)
(* and extract_features                                                     *)

\* base64.b64decode raises (line 31); the except of line 72 reports it
ProcessDecodeRaises ==
    /\ ppc = "idle"
    /\ \E img \in Images :
        /\ img.data = "bad_base64"
        /\ image_data' = img
    /\ process_result' = ProcessFailure("Failed to process fingerprint")
    /\ ppc' = "done"
    /\ UNCHANGED <<contour_idx, minutiae, extract_raised, quality, template_arg,
                   quality_result, features_result, match_threshold, confVars, matchVars, auxVars>>

\* cv2.imdecode returns None (lines 35-39)
ProcessImageNone ==
    /\ ppc = "idle"
    /\ \E img \in Images :
        /\ img.data = "not_image"
        /\ image_data' = img
    /\ process_result' = ProcessFailure("Failed to decode fingerprint image")
    /\ ppc' = "done"
    /\ UNCHANGED <<contour_idx, minutiae, extract_raised, quality, template_arg,
                   quality_result, features_result, match_threshold, confVars, matchVars, auxVars>>

\* the image decodes and is enhanced; _extract_minutiae starts: minutiae = [],
\* threshold, skeleton and contours are computed (lines 106-116)
ExtractStart ==
    /\ ppc = "idle"
    /\ \E img \in Images :
        /\ img.data = "ok"
        /\ image_data' = img
    /\ minutiae' = <<>>
    /\ contour_idx' = 1
    /\ ppc' = "contours"
    /\ UNCHANGED <<extract_raised, quality, process_result, template_arg,
                   quality_result, features_result, match_threshold, confVars, matchVars, auxVars>>

\* an exception in lines 110-116, before the loop: the except of line 140
\* logs it and line 143 returns minutiae, still []
ExtractRaisesEarly ==
    /\ ppc = "idle"
    /\ \E img \in Images :
        /\ img.data = "ok"
        /\ image_data' = img
    /\ minutiae' = <<>>
    /\ extract_raised' = TRUE
    /\ ppc' = "extracted"
    /\ UNCHANGED <<contour_idx, quality, process_result, template_arg,
                   quality_result, features_result, match_threshold, confVars, matchVars, auxVars>>

\* a contour of at most 10 boundary points is passed over (line 120)
ContourSkip ==
    /\ ppc = "contours"
    /\ contour_idx <= Len(image_data.contours)
    /\ IsSmallContour(image_data.contours[contour_idx])
    /\ contour_idx' = contour_idx + 1
    /\ UNCHANGED <<ppc, image_data, minutiae, extract_raised, quality, process_result,
                   template_arg, quality_result, features_result,
                   match_threshold, confVars, matchVars, auxVars>>

\* the vertices of a contour are appended (lines 122-135)
ContourPoints ==
    /\ ppc = "contours"
    /\ contour_idx <= Len(image_data.contours)
    /\ ~IsSmallContour(image_data.contours[contour_idx])
    /\ minutiae' = minutiae \o ContourMinutiae(contour_idx,
                                                image_data.contours[contour_idx].points)
    /\ contour_idx' = contour_idx + 1
    /\ UNCHANGED <<ppc, image_data, extract_raised, quality, process_result,
                   template_arg, quality_result, features_result,
                   match_threshold, confVars, matchVars, auxVars>>

\* an exception in lines 122-135, after n vertices of this contour were
\* appended: the except of line 140 logs it, line 138 is not reached and
\* line 143 returns minutiae as it stands
ContourRaises ==
    /\ ppc = "contours"
    /\ contour_idx <= Len(image_data.contours)
    /\ ~IsSmallContour(image_data.contours[contour_idx])
    /\ \E n \in 0..(image_data.contours[contour_idx].points - 1) :
        minutiae' = minutiae \o ContourMinutiae(contour_idx, n)
    /\ extract_raised' = TRUE
    /\ ppc' = "extracted"
    /\ UNCHANGED <<image_data, contour_idx, quality, process_result,
                   template_arg, quality_result, features_result,
                   match_threshold, confVars, matchVars, auxVars>>

\* the loop is over: minutiae = minutiae[:50] (line 138)
ExtractReturn ==
    /\ ppc = "contours"
    /\ contour_idx > Len(image_data.contours)
    /\ minutiae' = KeepTop(minutiae)
    /\ ppc' = "extracted"
    /\ UNCHANGED <<image_data, contour_idx, extract_raised, quality, process_result,
                   template_arg, quality_result, features_result,
                   match_threshold, confVars, matchVars, auxVars>>

\* if not minutiae (lines 47-51)
ProcessNoMinutiae ==
    /\ ppc = "extracted"
    /\ minutiae = <<>>
    /\ process_result' = ProcessFailure("No minutiae points found in fingerprint")
    /\ ppc' = "done"
    /\ UNCHANGED <<image_data, contour_idx, minutiae, extract_raised, quality,
                   template_arg, quality_result, features_result,
                   match_threshold, confVars, matchVars, auxVars>>

\* quality = self._calculate_quality(enhanced_image, minutiae) (line 54)
ProcessQuality ==
    /\ ppc = "extracted"
    /\ minutiae # <<>>
    /\ quality' = CalculateQuality(image_data, minutiae)
    /\ ppc' = "scored"
    /\ UNCHANGED <<image_data, contour_idx, minutiae, extract_raised, process_result,
                   template_arg, quality_result, features_result,
                   match_threshold, confVars, matchVars, auxVars>>

\* an exception in _calculate_quality: it returns 0.0 (lines 231-233)
ProcessQualityRaises ==
    /\ ppc = "extracted"
    /\ minutiae # <<>>
    /\ quality' = RatZero
    /\ ppc' = "scored"
    /\ UNCHANGED <<image_data, contour_idx, minutiae, extract_raised, process_result,
                   template_arg, quality_result, features_result,
                   match_threshold, confVars, matchVars, auxVars>>

\* if quality < self.min_quality_threshold (lines 56-60)
ProcessLowQuality ==
    /\ ppc = "scored"
    /\ BelowThreshold(quality)
    /\ process_result' = ProcessFailure("Fingerprint quality too low")
    /\ ppc' = "done"
    /\ UNCHANGED <<image_data, contour_idx, minutiae, extract_raised, quality,
                   template_arg, quality_result, features_result,
                   match_threshold, confVars, matchVars, auxVars>>

\* the template is generated and returned (lines 63-70)
ProcessGenerate ==
    /\ ppc = "scored"
    /\ ~BelowThreshold(quality)
    /\ process_result' = ProcessSuccess(minutiae, quality, image_data.shape)
    /\ ppc' = "done"
    /\ UNCHANGED <<image_data, contour_idx, minutiae, extract_raised, quality,
                   template_arg, quality_result, features_result,
                   match_threshold, confVars, matchVars, auxVars>>

\* a call of verify_quality
VerifyQualityCall ==
    /\ ppc = "idle"
    /\ \E t \in QualityTemplates :
        /\ template_arg' = t
        /\ quality_result' = VerifyQuality(t)
    /\ ppc' = "quality_verified"
    /\ UNCHANGED <<image_data, contour_idx, minutiae, extract_raised, quality,
                   process_result, features_result, match_threshold, confVars, matchVars, auxVars>>

\* a call of extract_features
ExtractFeaturesCall ==
    /\ ppc = "idle"
    /\ \E t \in QualityTemplates :
        /\ template_arg' = t
        /\ features_result' = ExtractFeatures(t)
    /\ ppc' = "features"
    /\ UNCHANGED <<image_data, contour_idx, minutiae, extract_raised, quality,
                   process_result, quality_result, match_threshold, confVars, matchVars, auxVars>>

InitProcessor ==
    /\ match_threshold = DefaultMatchThreshold
    /\ cpc = "idle"
    /\ minutiae1 = <<>>
    /\ minutiae2 = <<>>
    /\ i = 0
    /\ matches = <<>>
    /\ used_indices2 = {}
    /\ confidence = RatZero
    /\ MatchIdle
    /\ ProcessorIdle
    /\ AuxIdle

NextProcessor ==
    \/ ProcessDecodeRaises
    \/ ProcessImageNone
    \/ ExtractStart
    \/ ExtractRaisesEarly
    \/ ContourSkip
    \/ ContourPoints
    \/ ContourRaises
    \/ ExtractReturn
    \/ ProcessNoMinutiae
    \/ ProcessQuality
    \/ ProcessQualityRaises
    \/ ProcessLowQuality
    \/ ProcessGenerate
    \/ VerifyQualityCall
    \/ ExtractFeaturesCall

SpecProcessor ==
    InitProcessor /\ [][NextProcessor]_vars

----------------------------------------------------------------------------
(* The orientation difference of line 189 of services/matcher.py,           *)
(* abs(self._normalize_angle(orientation1 - orientation2)), one loop        *)
(* iteration of _normalize_angle at a time                                  *)

\* orientations of two minutiae: values around the gates and the branch
\* cut, more than a turn away from it, and very large finite ones
Orientations ==
    { Small(v) : v \in {-700, -314, -300, 0, 50, 314, 315, 628, 1000} }
    \cup { Big(1), Big(-1) }

\* self._normalize_angle(orientation1 - orientation2) is entered
NormalizeCall ==
    /\ npc = "idle"
    /\ \E o1 \in Orientations, o2 \in Orientations :
        /\ orientation1' = o1
        /\ orientation2' = o2
        /\ norm_angle' = FloatSub(o1, o2)
    /\ iterations' = 0
    /\ npc' = "down"
    /\ UNCHANGED <<diff_result, match_threshold, confVars, matchVars, procVars, scanVars, skelVars>>

\* while angle > np.pi: angle -= 2 * np.pi
NormalizeDownStep ==
    /\ npc = "down"
    /\ FloatGreater(norm_angle, Small(PI))
    /\ iterations < MaxIterations
    /\ norm_angle' = FloatSub(norm_angle, TwoPi)
    /\ iterations' = iterations + 1
    /\ UNCHANGED <<npc, orientation1, orientation2, diff_result,
                   match_threshold, confVars, matchVars, procVars, scanVars, skelVars>>

\* the first loop is left
NormalizeDownExit ==
    /\ npc = "down"
    /\ ~FloatGreater(norm_angle, Small(PI))
    /\ npc' = "up"
    /\ UNCHANGED <<orientation1, orientation2, norm_angle, iterations, diff_result,
                   match_threshold, confVars, matchVars, procVars, scanVars, skelVars>>

\* while angle < -np.pi: angle += 2 * np.pi
NormalizeUpStep ==
    /\ npc = "up"
    /\ FloatGreater(Small(-PI), norm_angle)
    /\ iterations < MaxIterations
    /\ norm_angle' = FloatAdd(norm_angle, TwoPi)
    /\ iterations' = iterations + 1
    /\ UNCHANGED <<npc, orientation1, orientation2, diff_result,
                   match_threshold, confVars, matchVars, procVars, scanVars, skelVars>>

\* return angle, and abs of it (line 189)
NormalizeReturn ==
    /\ npc = "up"
    /\ ~FloatGreater(Small(-PI), norm_angle)
    /\ diff_result' = FloatAbs(norm_angle)
    /\ npc' = "done"
    /\ UNCHANGED <<orientation1, orientation2, norm_angle, iterations,
                   match_threshold, confVars, matchVars, procVars, scanVars, skelVars>>

InitNormalize ==
    /\ match_threshold = DefaultMatchThreshold
    /\ cpc = "idle"
    /\ minutiae1 = <<>>
    /\ minutiae2 = <<>>
    /\ i = 0
    /\ matches = <<>>
    /\ used_indices2 = {}
    /\ confidence = RatZero
    /\ MatchIdle
    /\ ProcessorIdle
    /\ AuxIdle

NextNormalize ==
    \/ NormalizeCall
    \/ NormalizeDownStep
    \/ NormalizeDownExit
    \/ NormalizeUpStep
    \/ NormalizeReturn

SpecNormalize == InitNormalize /\ [][NextNormalize]_vars

----------------------------------------------------------------------------
(* DigitalPersonaInterface (utils/digitalpersona.py) and the /capture route *)
(* of app.py, one call or request at a time.  _initialize_sdk is a          *)
(* placeholder that cannot raise and _check_scanner_connection returns      *)
(* True, so a successful initialize sets both flags; the branch for         *)
(* ImportError sets both flags as well.                                     *)

Platforms == {"win32", "linux"}

\* self._check_scanner_connection() (lines 105-116)
CheckScannerConnection == TRUE

\* is_scanner_connected (lines 118-126)
IsScannerConnected(initialized, available) ==
    IF ~initialized THEN FALSE ELSE available

CaptureFailure(e) == ScannerReturn("capture_fingerprint", FALSE, e, FALSE, FALSE, 0)

\* capture_fingerprint (lines 128-169); captured says whether
\* _simulate_fingerprint_capture returned an image rather than None
CaptureFingerprintUnchecked(initialized, available, captured) ==
    IF captured
    THEN ScannerReturn("capture_fingerprint", TRUE, "none", TRUE, FALSE, 0)
    ELSE CaptureFailure("Failed to capture fingerprint")
CaptureFingerprint(initialized, available, captured) ==
    IF ~initialized THEN CaptureFailure("DigitalPersona interface not initialized")
    ELSE IF ~available THEN CaptureFailure("Scanner not available")
    ELSE IF captured
        THEN ScannerReturn("capture_fingerprint", TRUE, "none", TRUE, FALSE, 0)
    ELSE CaptureFailure("Failed to capture fingerprint")

\* get_scanner_status (lines 218-247), by its keys initialized, connected
\* and error
ScannerStatus(initialized, available) ==
    IF ~initialized
    THEN [initialized |-> FALSE, connected |-> FALSE, error |-> "Interface not initialized"]
    ELSE [initialized |-> initialized, connected |-> available, error |-> "none"]

RouteFailure(e) == ScannerReturn("/capture", FALSE, e, FALSE, FALSE, 400)

\* the /capture route of app.py (lines 31-72); processed says whether
\* process_fingerprint reported success on the captured image
CaptureRoute(initialized, available, captured, processed) ==
    IF ~IsScannerConnected(initialized, available)
    THEN RouteFailure("DigitalPersona scanner not connected")
    ELSE LET capture == CaptureFingerprint(initialized, available, captured)
         IN  IF ~capture.success THEN RouteFailure("Failed to capture fingerprint")
             ELSE IF ~processed THEN RouteFailure("Failed to process fingerprint")
             ELSE ScannerReturn("/capture", TRUE, "none", TRUE, TRUE, 200)

Called(op, ok) == Append(calls, [op |-> op, ok |-> ok])

\* initialize() returns False: not on Windows, or the client is not
\* installed (lines 41-48)
InitializeFails ==
    /\ Len(calls) < MaxCalls
    /\ \E installed \in BOOLEAN : platform # "win32" \/ ~installed
    /\ calls' = Called("initialize", FALSE)
    /\ last_return' = ScannerReturn("initialize", FALSE, "none", FALSE, FALSE, 0)
    /\ UNCHANGED <<platform, is_initialized, scanner_available,
                   match_threshold, confVars, matchVars, procVars, normVars, skelVars>>

\* initialize() returns True (lines 53-58)
InitializeSucceeds ==
    /\ Len(calls) < MaxCalls
    /\ platform = "win32"
    /\ is_initialized' = TRUE
    /\ scanner_available' = CheckScannerConnection
    /\ calls' = Called("initialize", TRUE)
    /\ last_return' = ScannerReturn("initialize", TRUE, "none", FALSE, FALSE, 0)
    /\ UNCHANGED <<platform, match_threshold, confVars, matchVars, procVars, normVars, skelVars>>

\* a call of is_scanner_connected()
IsScannerConnectedCall ==
    /\ Len(calls) < MaxCalls
    /\ LET connected == IsScannerConnected(is_initialized, scanner_available)
       IN  /\ calls' = Called("is_scanner_connected", connected)
           /\ last_return' = ScannerReturn("is_scanner_connected", connected, "none",
                                           FALSE, FALSE, 0)
    /\ UNCHANGED <<platform, is_initialized, scanner_available,
                   match_threshold, confVars, matchVars, procVars, normVars, skelVars>>

\* a call of capture_fingerprint()
CaptureFingerprintCall ==
    /\ Len(calls) < MaxCalls
    /\ \E captured \in BOOLEAN :
        LET r == CaptureFingerprint(is_initialized, scanner_available, captured)
        IN  /\ calls' = Called("capture_fingerprint", r.success)
            /\ last_return' = r
    /\ UNCHANGED <<platform, is_initialized, scanner_available,
                   match_threshold, confVars, matchVars, procVars, normVars, skelVars>>

\* a call of get_scanner_status()
GetScannerStatusCall ==
    /\ Len(calls) < MaxCalls
    /\ LET st == ScannerStatus(is_initialized, scanner_available)
       IN  /\ calls' = Called("get_scanner_status", st.connected)
           /\ last_return' = ScannerReturn("get_scanner_status", st.initialized, st.error,
                                           FALSE, FALSE, 0)
    /\ UNCHANGED <<platform, is_initialized, scanner_available,
                   match_threshold, confVars, matchVars, procVars, normVars, skelVars>>

\* a call of cleanup() (lines 249-261); on an interface that is not
\* initialized it changes nothing
CleanupKeepsScanner ==
    /\ Len(calls) < MaxCalls
    /\ is_initialized' = FALSE
    /\ UNCHANGED scanner_available
    /\ calls' = Called("cleanup", TRUE)
    /\ last_return' = ScannerReturn("cleanup", TRUE, "none", FALSE, FALSE, 0)
    /\ UNCHANGED <<platform, match_threshold, confVars, matchVars, procVars, normVars, skelVars>>
Cleanup ==
    /\ Len(calls) < MaxCalls
    /\ IF is_initialized
       THEN /\ is_initialized' = FALSE
            /\ scanner_available' = FALSE
       ELSE UNCHANGED <<is_initialized, scanner_available>>
    /\ calls' = Called("cleanup", TRUE)
    /\ last_return' = ScannerReturn("cleanup", TRUE, "none", FALSE, FALSE, 0)
    /\ UNCHANGED <<platform, match_threshold, confVars, matchVars, procVars, normVars, skelVars>>

\* a POST /capture request
CaptureRequest ==
    /\ Len(calls) < MaxCalls
    /\ \E captured \in BOOLEAN, processed \in BOOLEAN :
        LET r == CaptureRoute(is_initialized, scanner_available, captured, processed)
        IN  /\ calls' = Called("/capture", r.success)
            /\ last_return' = r
    /\ UNCHANGED <<platform, is_initialized, scanner_available,
                   match_threshold, confVars, matchVars, procVars, normVars, skelVars>>

InitScanner ==
    /\ match_threshold = DefaultMatchThreshold
    /\ cpc = "idle"
    /\ minutiae1 = <<>>
    /\ minutiae2 = <<>>
    /\ i = 0
    /\ matches = <<>>
    /\ used_indices2 = {}
    /\ confidence = RatZero
    /\ MatchIdle
    /\ ProcessorIdle
    /\ NormalizeIdle
    /\ SkeletonIdle
    /\ ScannerConstructed
    /\ platform \in Platforms

NextScanner ==
    \/ InitializeFails
    \/ InitializeSucceeds
    \/ IsScannerConnectedCall
    \/ CaptureFingerprintCall
    \/ GetScannerStatusCall
    \/ Cleanup
    \/ CaptureRequest

SpecScanner == InitScanner /\ [][NextScanner]_vars

----------------------------------------------------------------------------
(* _skeletonize (services/fingerprint_processor.py, lines 145-165), one     *)
(* iteration of its loop at a time.  image and eroded are the contents of   *)
(* the arrays the two names refer to; the swap of line 160 exchanges the    *)
(* names, so the contents exchange.  cv2.erode and cv2.dilate are called    *)
(* with the default border, BORDER_CONSTANT with                            *)
(* morphologyDefaultBorderValue(): pixels outside the image count as the    *)
(* maximum for an erosion and as the minimum for a dilation, so they never  *)
(* change a result.                                                         *)

Pixels == (1..MaxHeight) \X (1..MaxWidth)

\* cv2.getStructuringElement(cv2.MORPH_CROSS, (3, 3)) placed on pixel p
Kernel(p) ==
    { p, <<p[1] - 1, p[2]>>, <<p[1] + 1, p[2]>>, <<p[1], p[2] - 1>>, <<p[1], p[2] + 1>> }

\* cv2.erode(src, kernel, dst): the minimum over the kernel
Erode(src) == { p \in Pixels : \A q \in Kernel(p) : q \in Pixels => q \in src }

\* cv2.dilate(src, kernel, dst): the maximum over the kernel
Dilate(src) == { p \in Pixels : \E q \in Kernel(p) : q \in Pixels /\ q \in src }

\* cv2.subtract(src1, src2, dst), saturating at 0
SubtractReversed(src1, src2) == src2 \ src1
Subtract(src1, src2) == src1 \ src2

\* cv2.bitwise_or(src1, src2, dst)
BitwiseOr(src1, src2) == src1 \cup src2

\* cv2.countNonZero(src)
CountNonZero(src) == Cardinality(src)

\* binary images handed to _skeletonize
BinaryImages == SUBSET Pixels

\* lines 149-153
SkeletonizeStart ==
    /\ spc = "idle"
    /\ \E img \in BinaryImages :
        /\ binary' = img
        /\ image' = img
        /\ eroded' = img
    /\ skeleton' = {}
    /\ temp' = {}
    /\ loops' = 0
    /\ spc' = "loop"
    /\ UNCHANGED <<match_threshold, confVars, matchVars, procVars, normVars, scanVars>>

\* lines 156-160: the loop body up to the swap
LoopBodyEffect ==
    /\ temp' = Subtract(image, Dilate(Erode(eroded)))
    /\ skeleton' = BitwiseOr(skeleton, Subtract(image, Dilate(Erode(eroded))))
    /\ eroded' = image
    /\ image' = Erode(eroded)
    /\ loops' = loops + 1
    /\ UNCHANGED <<binary, match_threshold, confVars, matchVars, procVars, normVars, scanVars>>

\* an iteration after which the image still has foreground pixels
SkeletonIterate ==
    /\ spc = "loop"
    /\ loops < MaxLoops
    /\ CountNonZero(Erode(eroded)) # 0
    /\ LoopBodyEffect
    /\ UNCHANGED spc

\* an iteration after which countNonZero(image) == 0: break, return skeleton
SkeletonBreak ==
    /\ spc = "loop"
    /\ loops < MaxLoops
    /\ CountNonZero(Erode(eroded)) = 0
    /\ LoopBodyEffect
    /\ spc' = "done"

InitSkeleton ==
    /\ match_threshold = DefaultMatchThreshold
    /\ cpc = "idle"
    /\ minutiae1 = <<>>
    /\ minutiae2 = <<>>
    /\ i = 0
    /\ matches = <<>>
    /\ used_indices2 = {}
    /\ confidence = RatZero
    /\ MatchIdle
    /\ ProcessorIdle
    /\ AuxIdle

NextSkeleton ==
    \/ SkeletonizeStart
    \/ SkeletonIterate
    \/ SkeletonBreak

SpecSkeleton == InitSkeleton /\ [][NextSkeleton]_vars

----------------------------------------------------------------------------
(* Properties of the correspondence search and of the confidence           *)
(* (checked under SpecConfidence)                                           *)

WellFormed(ms) == ~Raises(ms)

\* squared pixel distance, exact
DistanceSquared(p, q) == (p.x - q.x) * (p.x - q.x) + (p.y - q.y) * (p.y - q.y)

\* the pairing (a, b) of A[a] with B[b] passes both gates
PassesGates(a, b) ==
    /\ DistanceSquared(minutiae1[a], minutiae2[b])
           <= max_distance_threshold * max_distance_threshold
    /\ OrientationDiff(minutiae1[a], minutiae2[b]) <= orientation_tolerance

\* distance + 20 * orientation_difference of the pairing (a, b)
PairScore(a, b) ==
    CombinedScore(Distance(minutiae1[a], minutiae2[b]),
                  OrientationDiff(minutiae1[a], minutiae2[b]))

MatchIndices == 1..Len(matches)

\* C2: at every point of the search and after it, every index of A and every
\* index of B appears in at most one correspondence
C2_OneToOne ==
    \A k1 \in MatchIndices, k2 \in MatchIndices :
        k1 # k2 => /\ matches[k1][1] # matches[k2][1]
                   /\ matches[k1][2] # matches[k2][2]

\* C2 witness: the search is over, two correspondences were formed, and an
\* A-point left without one passes both gates with a B-point that is claimed
C2_Witness ==
    /\ cpc = "done"
    /\ Len(matches) >= 2
    /\ \E a \in 1..Len(minutiae1), k \in MatchIndices :
        /\ \A k2 \in MatchIndices : matches[k2][1] # a
        /\ PassesGates(a, matches[k][2])

\* C3: no correspondence joins two points farther apart than the distance
\* threshold or differing in orientation by more than the tolerance, and two
\* single-point sets farther apart than the threshold give no correspondence
\* and confidence 0
C3_Gating ==
    /\ \A k \in MatchIndices : PassesGates(matches[k][1], matches[k][2])
    /\ ( /\ cpc = "done"
         /\ Len(minutiae1) = 1 /\ Len(minutiae2) = 1
         /\ WellFormed(minutiae1) /\ WellFormed(minutiae2)
         /\ DistanceSquared(minutiae1[1], minutiae2[1])
                > max_distance_threshold * max_distance_threshold )
       => (matches = <<>> /\ confidence = RatZero)

\* C3 witness: the scenario A = [(0,0,0)], B = [(100,100,0)] has returned
C3_Witness ==
    /\ cpc = "done"
    /\ minutiae1 = <<Minutia(0, 0, 0)>>
    /\ minutiae2 = <<Minutia(100, 100, 0)>>
    /\ matches = <<>>

\* the B-indices claimed by A-points before a
ClaimedBefore(a) == { matches[k][2] : k \in { k2 \in MatchIndices : matches[k2][1] < a } }

\* the B-indices offered to a: unclaimed by earlier A-points, passing both gates
Offered(a) == { b \in 1..Len(minutiae2) \ ClaimedBefore(a) : PassesGates(a, b) }

\* C4: the search is the greedy first-come assignment: A's points are taken in
\* their order, each processed A-point is paired with an offered B-point of
\* least distance + 20 * orientation_difference, and is left unpaired exactly
\* when no B-point is offered to it
C4_Greedy ==
    cpc \in {"search", "done"} =>
        /\ \A k1 \in MatchIndices, k2 \in MatchIndices :
               k1 < k2 => matches[k1][1] < matches[k2][1]
        /\ \A k \in MatchIndices : matches[k][1] < i
        /\ \A a \in 1..(i - 1) :
               IF Offered(a) = {}
                   THEN \A k \in MatchIndices : matches[k][1] # a
                   ELSE \E k \in MatchIndices :
                           /\ matches[k][1] = a
                           /\ matches[k][2] \in Offered(a)
                           /\ \A b \in Offered(a) : PairScore(a, matches[k][2]) <= PairScore(a, b)

\* C4 witness: the search is over and a later A-point would score strictly
\* better on a B-point than the earlier A-point that claimed it
C4_Witness ==
    /\ cpc = "done"
    /\ \E k \in MatchIndices, a \in 1..Len(minutiae1) :
        /\ a > matches[k][1]
        /\ PassesGates(a, matches[k][2])
        /\ PairScore(a, matches[k][2]) < PairScore(matches[k][1], matches[k][2])

\* C5: the returned confidence lies in [0, 1]
C5_ConfidenceBounded ==
    cpc = "done" =>
        /\ confidence.num >= 0 /\ confidence.den > 0
        /\ RatLeq(RatZero, confidence)
        /\ RatLeq(confidence, RatOne)

\* C5 witness: two different lists with at least BonusLowCount correspondences,
\* whose weighted sum plus bonus exceeds 1, have returned 1
C5_Witness ==
    /\ cpc = "done"
    /\ minutiae1 # minutiae2
    /\ Len(matches) >= BonusLowCount
    /\ confidence = RatOne

\* C6: a non-empty well-formed list matched against itself gives as many
\* correspondences as it has minutiae and confidence exactly 1, which is a
\* match at the default threshold
C6_SelfMatch ==
    ( /\ cpc = "done"
      /\ minutiae1 = minutiae2
      /\ minutiae1 # <<>>
      /\ WellFormed(minutiae1) )
    => /\ Len(matches) = Len(minutiae1)
       /\ confidence = RatOne
       /\ RatLeq(DefaultMatchThreshold, confidence)

\* C6 witness: a self-match of a list holding the same point twice and a
\* point close to it has returned
C6_Witness ==
    /\ cpc = "done"
    /\ minutiae1 = minutiae2
    /\ Len(minutiae1) >= 3
    /\ \E a \in 1..Len(minutiae1), b \in 1..Len(minutiae1) :
        a # b /\ minutiae1[a] = minutiae1[b]
    /\ \E a \in 1..Len(minutiae1), b \in 1..Len(minutiae1) :
        minutiae1[a] # minutiae1[b] /\ PassesGates(a, b)

\* the weighted sum of C23 as the fraction num/den over the common
\* denominator 20 * max(|A|,|B|) * match_count * 5000 * 50; the scores of a
\* correspondence are max(0, limit - value) in units of 1/limit
C23_Sum ==
    LET mc == Len(matches)
        T == IF Len(minutiae1) >= Len(minutiae2) THEN Len(minutiae1) ELSE Len(minutiae2)
        DL == max_distance_threshold * Scale
        OL == orientation_tolerance
        sd[k \in 0..mc] ==
            IF k = 0 THEN 0
            ELSE sd[k - 1] + (IF matches[k][3] >= DL THEN 0 ELSE DL - matches[k][3])
        so[k \in 0..mc] ==
            IF k = 0 THEN 0
            ELSE so[k - 1] + (IF matches[k][4] >= OL THEN 0 ELSE OL - matches[k][4])
        bonus == IF mc >= 15 THEN 2
                 ELSE IF 10 <= mc /\ mc <= 14 THEN 1
                 ELSE 0
    IN  [num |-> 8 * mc * mc * DL * OL + 6 * sd[mc] * T * OL + 6 * so[mc] * T * DL
                 + bonus * T * mc * DL * OL,
         den |-> 20 * T * mc * DL * OL]

\* C23: for a non-empty correspondence list the confidence returned is
\* min(1, 0.4 * match_count / max(|A|,|B|) + 0.3 * average distance score
\* + 0.3 * average orientation score + bonus), the bonus 0.10 from 15
\* correspondences, 0.05 from 10 to 14 and 0 up to 9
C23_ConfidenceFormula ==
    (cpc = "done" /\ Len(matches) > 0) =>
        confidence = (IF C23_Sum.num >= C23_Sum.den THEN [num |-> 1, den |-> 1]
                      ELSE Rat(C23_Sum.num, C23_Sum.den))

\* C23 witness: 15 correspondences were scored and the sum with the bonus
\* 0.10 stays below 1
C23_Witness ==
    /\ cpc = "done"
    /\ Len(matches) >= 15
    /\ C23_Sum.num < C23_Sum.den
    /\ confidence = Rat(C23_Sum.num, C23_Sum.den)

\* C27: for two non-empty lists of well-formed points the confidence is
\* above 0 exactly when at least one correspondence was formed, and is then
\* at least 0.4 / max(|A|,|B|)
C27_PositiveIffMatched ==
    ( /\ cpc = "done"
      /\ minutiae1 # <<>> /\ minutiae2 # <<>>
      /\ WellFormed(minutiae1) /\ WellFormed(minutiae2) )
    => /\ RatLess(RatZero, confidence) <=> Len(matches) >= 1
       /\ Len(matches) >= 1 =>
              LET longer == IF Len(minutiae1) >= Len(minutiae2)
                            THEN Len(minutiae1) ELSE Len(minutiae2)
              IN  ~FracLess(confidence.num, confidence.den, 2, 5 * longer)

\* C27 witness: a single correspondence at distance exactly 50 and
\* orientation difference exactly 0.5, both of whose scores are 0, between
\* lists of which one holds two points, was scored: the confidence is 0.4 / 2
C27_Witness ==
    /\ cpc = "done"
    /\ Len(matches) = 1
    /\ matches[1][3] = max_distance_threshold * Scale
    /\ matches[1][4] = orientation_tolerance
    /\ Len(minutiae1) = 2
    /\ confidence = Rat(1, 5)

\* C11: a call with an empty first or second list returns confidence 0 and
\* never enters the correspondence search: the search index, the matches
\* and the claimed indices are those of a search that never started
C11_EmptyInput ==
    (cpc # "idle" /\ (minutiae1 = <<>> \/ minutiae2 = <<>>)) =>
        /\ cpc = "done"
        /\ confidence = RatZero
        /\ i = 0
        /\ matches = <<>>
        /\ used_indices2 = {}

\* C11 witness: a call with an empty first list and a second list long
\* enough for a bonus has returned
C11_Witness ==
    /\ cpc = "done"
    /\ minutiae1 = <<>>
    /\ Len(minutiae2) >= BonusLowCount
    /\ confidence = RatZero

----------------------------------------------------------------------------
(* Properties of match_fingerprint and verify_match (checked under Spec)   *)

\* a search has returned: the input template was usable
Searched == pc = "done" /\ InputOutcome(input_template) = "search"

\* a candidate that passes every check of the loop body and is compared
Valid(template_info) == CandidateOutcome(template_info) = "compare"

ValidIndices == { k \in 1..Len(templates) : Valid(templates[k]) }

\* the confidence of the input against candidate k
ConfidenceOf(k) ==
    CalculateMatchConfidence(LoopInputMinutiae,
                             GetMinutiae(DecodeTemplate(templates[k].template)))

\* a candidate whose template is undecodable, decodes to something that is
\* not a well-formed record (no dict, or a dict with a malformed minutiae
\* entry), or carries no minutiae
Corrupt(template_info) ==
    LET stored_data == DecodeTemplate(template_info.template)
    IN  \/ template_info.template.enc # "ok"
        \/ ~IsDict(stored_data)
        \/ GetMinutiae(stored_data) = <<>>
        \/ Raises(GetMinutiae(stored_data))

RemoveAt(ts, k) == [j \in 1..(Len(ts) - 1) |-> IF j < k THEN ts[j] ELSE ts[j + 1]]

\* C1: a corrupt candidate never aborts matching: the result equals the
\* result of matching the same input against the list without that candidate
C1_CorruptCandidateAbsorbed ==
    Searched =>
        \A k \in 1..Len(templates) :
            Corrupt(templates[k]) =>
                result = MatchFingerprint(input_template, RemoveAt(templates, k),
                                          match_threshold)

\* C7: a candidate whose confidence equals the threshold is returned when it
\* is the only valid candidate, and no candidate below the threshold is
\* returned, whatever the admissible threshold
C7_ThresholdBoundary ==
    Searched =>
        /\ \A k \in ValidIndices :
               (ValidIndices = {k} /\ ConfidenceOf(k) = match_threshold)
                   => result = Some(templates[k].studentId, match_threshold)
        /\ ~result.none => RatLeq(match_threshold, result.confidence)

\* C8: of the candidates sharing the greatest confidence, when it is at or
\* above the threshold, the earliest in the list is returned
C8_TieBreak ==
    Searched =>
        \A k1 \in ValidIndices, k2 \in ValidIndices :
            ( /\ k1 < k2
              /\ ConfidenceOf(k1) = ConfidenceOf(k2)
              /\ RatLeq(match_threshold, ConfidenceOf(k1))
              /\ \A k \in ValidIndices : RatLeq(ConfidenceOf(k), ConfidenceOf(k1))
              /\ \A k \in ValidIndices : k < k1 => ConfidenceOf(k) # ConfidenceOf(k1) )
            => result = Some(templates[k1].studentId, ConfidenceOf(k1))

\* C9: the result is a valid candidate of greatest confidence whenever that
\* confidence is at or above the threshold, and no match exactly when no
\* valid candidate is at or above the threshold
C9_BestMatch ==
    Searched =>
        IF \E k \in ValidIndices : RatLeq(match_threshold, ConfidenceOf(k))
            THEN /\ ~result.none
                 /\ \E k \in ValidIndices :
                        /\ result = Some(templates[k].studentId, ConfidenceOf(k))
                        /\ \A k2 \in ValidIndices : RatLeq(ConfidenceOf(k2), ConfidenceOf(k))
            ELSE result = NoMatch

\* a template that decodes to a record with minutiae
Usable(template) ==
    LET data == DecodeTemplate(template)
    IN  Truthy(data) /\ IsDict(data) /\ GetMinutiae(data) # <<>>

MinutiaeOf(template) == GetMinutiae(DecodeTemplate(template))

\* C10: on two decodable templates with minutiae, verify_match reports the
\* confidence of (template1, template2) in that order, and match = TRUE
\* exactly when that confidence is at or above match_threshold
C10_VerifyMatch ==
    (pc = "verified" /\ Usable(template1) /\ Usable(template2)) =>
        LET c == CalculateMatchConfidence(MinutiaeOf(template1), MinutiaeOf(template2))
        IN  /\ verify_result.success
            /\ verify_result.confidence = c
            /\ verify_result.match = RatLeq(match_threshold, c)

\* C10 witness: a reported match whose confidence in the opposite argument
\* order would be below the threshold
C10_Witness ==
    /\ pc = "verified"
    /\ Usable(template1) /\ Usable(template2)
    /\ verify_result.match
    /\ RatLess(CalculateMatchConfidence(MinutiaeOf(template2), MinutiaeOf(template1)),
               match_threshold)

\* a candidate on which the loop body raises: it has a studentId and its
\* template decodes to a truthy value without .get
RaisesOn(template_info) ==
    /\ template_info.studentId # 0
    /\ Decodes(template_info.template.enc)
    /\ template_info.template.value.kind \in {"true", "number", "string", "array"}

\* C28: match_fingerprint returns to its caller, with no match or a match,
\* on every input: when the input template cannot be decoded or has no
\* minutiae the result is no match and no candidate was examined, and when
\* the loop body raised on a candidate the result is no match
C28_NeverRaises ==
    pc = "done" =>
        /\ result.none \/ \E k \in 1..Len(templates) :
                               result.studentId = templates[k].studentId
        /\ ~Usable(input_template) =>
               /\ result = NoMatch
               /\ idx = 0
               /\ best_match = NoMatch
        /\ (Usable(input_template)
              /\ \E k \in 1..Len(templates) : RaisesOn(templates[k])) =>
               result = NoMatch

\* C28 witness: the loop body raised on a candidate after an earlier
\* candidate had become the best match, and no match was returned
C28_Witness ==
    /\ pc = "done"
    /\ Usable(input_template)
    /\ idx <= Len(templates)
    /\ RaisesOn(templates[idx])
    /\ ~best_match.none
    /\ result = NoMatch


----------------------------------------------------------------------------
(* Properties of the template codec, verify_quality, extract_features and  *)
(* process_fingerprint (checked under SpecProcessor)                        *)

\* a verify_quality or an extract_features call has returned
Inspected == ppc \in {"quality_verified", "features"}

\* the argument is the base64 text of the JSON text of a dict with keys
IsRecord(t) == Decodes(t.enc) /\ t.value.kind = "object"

\* C12: a string that is not valid base64, not valid UTF-8 or not parseable
\* JSON decodes to the failure value in both decoders, and verify_quality
\* and extract_features report it as an invalid template instead of raising
C12_MalformedTemplate ==
    (Inspected /\ template_arg.enc # "ok") =>
        /\ ~Truthy(ProcessorDecodeTemplate(template_arg))
        /\ ~Truthy(DecodeTemplate(template_arg))
        /\ ppc = "quality_verified"
               => quality_result = QualityFailure("Invalid template format")
        /\ ppc = "features"
               => features_result = FeaturesFailure("Invalid template format")

\* C13: a validly encoded record whose version is not the recognized one is
\* accepted by none of verify_quality, extract_features, verify_match and
\* match_fingerprint
C13_UnsupportedVersion ==
    ( /\ Inspected
      /\ IsRecord(template_arg)
      /\ template_arg.value.has_version
      /\ template_arg.value.version # template_version )
    => /\ ppc = "quality_verified" => ~quality_result.is_valid
       /\ ppc = "features" => ~features_result.success
       /\ ~VerifyMatch(template_arg, template_arg, match_threshold).success
       /\ MatchFingerprint(template_arg, <<Candidate(1, template_arg)>>,
                           match_threshold).none

\* the record has the five required keys
HasRequiredFields(value) ==
    /\ value.has_version
    /\ value.quality_kind # "missing"
    /\ value.shape_kind # "missing"
    /\ value.has_minutiae
    /\ value.count_kind # "missing"

\* C14: a record with the five required keys and a numeric quality is
\* decoded and inspected also when it carries created_at, and a record
\* lacking a required key is neither reported valid by verify_quality nor
\* reported with success by extract_features
C14_RequiredFields ==
    (Inspected /\ IsRecord(template_arg)) =>
        IF HasRequiredFields(template_arg.value)
            THEN template_arg.value.quality_kind = "number" =>
                    /\ ppc = "quality_verified" => quality_result.error = "none"
                    /\ ppc = "features" => features_result.success
            ELSE /\ ppc = "quality_verified" => ~quality_result.is_valid
                 /\ ppc = "features" => ~features_result.success

\* process_fingerprint has returned a template
Generated == ppc = "done" /\ process_result.success

\* C15: decoding the template that process_fingerprint encoded gives back
\* the record it was made from: version, quality, the image shape (a pair),
\* the minutiae and their count, and no other key
C15_RoundTrip ==
    Generated =>
        ProcessorDecodeTemplate(process_result.template)
            = [FullRecord(template_version, quality, image_data.shape, minutiae,
                          Len(minutiae))
                  EXCEPT !.shape_kind = "tuple"]

\* q lies in [0, 1]
InUnitInterval(q) == RatLeq(RatZero, q) /\ RatLeq(q, RatOne)

\* C16: the quality verify_quality reports, for whatever template, and the
\* score _calculate_quality returns lie in [0, 1]
C16_QualityBounded ==
    /\ (ppc = "quality_verified" /\ quality_result.error = "none")
           => InUnitInterval(quality_result.quality)
    /\ ppc \in {"scored", "done"} => InUnitInterval(quality)

\* C17: verify_quality reports is_valid exactly when the template decodes to
\* a record whose quality is a number at or above min_quality_threshold and
\* whose minutiae_count is at least 10; an undecodable template is not valid
C17_IsValid ==
    ppc = "quality_verified" =>
        LET data == ProcessorDecodeTemplate(template_arg)
        IN  quality_result.is_valid
                <=> ( /\ Truthy(data) /\ IsDict(data)
                      /\ data.quality_kind = "number"
                      /\ RatLeq(min_quality_threshold, data.quality)
                      /\ data.count_kind = "number"
                      /\ data.minutiae_count >= MinMinutiaeCount )

\* C17 witness: a template whose quality is exactly the threshold and whose
\* minutiae_count is exactly 10 was reported valid
C17_Witness ==
    /\ ppc = "quality_verified"
    /\ quality_result.is_valid
    /\ quality_result.quality = min_quality_threshold
    /\ quality_result.minutiae_count = MinMinutiaeCount

\* C18: the stages run in the order image decode, minutiae extraction,
\* quality gate, template encoding: no result and no template exist before
\* the call returns, the contour loop is entered only on a decoded image, a
\* score is computed only on a non-empty minutiae list, success means a
\* decoded image, at least one minutia, a score at or above the threshold
\* and the template of exactly these, and a failure carries no template and
\* names the first stage that failed
C18_StageOrder ==
    /\ ppc \in {"contours", "extracted", "scored"}
           => image_data.data = "ok" /\ process_result = ProcessIdle
    /\ ppc = "scored" => minutiae # <<>>
    /\ ppc = "done" =>
        /\ process_result.success =>
               /\ image_data.data = "ok"
               /\ Len(minutiae) >= 1
               /\ RatLeq(min_quality_threshold, quality)
               /\ process_result.template
                      = GenerateTemplate(minutiae, quality, image_data.shape)
        /\ ~process_result.success => process_result.template = NoTemplate
        /\ image_data.data # "ok" =>
               process_result.error \in {"Failed to process fingerprint",
                                         "Failed to decode fingerprint image"}
        /\ (image_data.data = "ok" /\ minutiae = <<>>) =>
               process_result.error = "No minutiae points found in fingerprint"
        /\ (image_data.data = "ok" /\ minutiae # <<>>
                /\ RatLess(quality, min_quality_threshold)) =>
               process_result = ProcessFailure("Fingerprint quality too low")

\* C18 witness: an image with at least 10 minutiae and a positive score
\* below the threshold was rejected without a template
C18_Witness ==
    /\ ppc = "done"
    /\ Len(minutiae) >= MinMinutiaeCount
    /\ RatLess(RatZero, quality)
    /\ RatLess(quality, min_quality_threshold)
    /\ process_result = ProcessFailure("Fingerprint quality too low")

\* C19: a template returned with success holds between 10 and 50 minutiae,
\* and its minutiae_count, as the returned minutiae_count, is their number
C19_MinutiaeCount ==
    Generated =>
        LET data == ProcessorDecodeTemplate(process_result.template)
        IN  /\ data.minutiae_count = Len(data.minutiae)
            /\ process_result.minutiae_count = Len(data.minutiae)
            /\ MinMinutiaeCount <= data.minutiae_count
            /\ data.minutiae_count <= MaxMinutiae

\* C20: once an exception was caught in _extract_minutiae, whether before
\* the contour loop or at any contour or vertex of it, the list returned is
\* empty and process_fingerprint reports that no minutiae were found
C20_FailsSoftly ==
    (extract_raised /\ ppc \in {"extracted", "scored", "done"}) =>
        /\ minutiae = <<>>
        /\ ppc # "scored"
        /\ ppc = "done" =>
               process_result = ProcessFailure("No minutiae points found in fingerprint")

\* the candidates of an image in contour discovery order, restated from
\* lines 119-135: every vertex of every contour of more than 10 boundary points
RECURSIVE DiscoveredFrom(_, _)
DiscoveredFrom(contours, c) ==
    IF c > Len(contours) THEN <<>>
    ELSE (IF contours[c].len > MinContourLength
          THEN [p \in 1..contours[c].points |->
                    [x |-> p, y |-> c, orientation |-> 0, wf |-> TRUE]]
          ELSE <<>>) \o DiscoveredFrom(contours, c + 1)

Discovered == DiscoveredFrom(image_data.contours, 1)

\* C21: the list returned by _extract_minutiae never holds more than 50
\* points, on any path, and when more than 50 candidates were discovered it
\* is the first 50 of them in contour discovery order
C21_AtMostFifty ==
    ppc \in {"extracted", "scored", "done"} /\ image_data.data = "ok" =>
        /\ Len(minutiae) <= 50
        /\ (~extract_raised /\ Len(Discovered) > 50) =>
               minutiae = SubSeq(Discovered, 1, 50)

\* C26: for a template that decodes to a record and that both operations
\* accept, verify_quality and extract_features report the same minutiae count
C26_SameCount ==
    ( /\ Inspected
      /\ IsRecord(template_arg)
      /\ VerifyQuality(template_arg).error = "none"
      /\ ExtractFeatures(template_arg).success )
    => /\ ppc = "quality_verified" =>
              quality_result.minutiae_count
                  = ExtractFeatures(template_arg).minutiae_count
       /\ ppc = "features" =>
              features_result.minutiae_count
                  = VerifyQuality(template_arg).minutiae_count

----------------------------------------------------------------------------
(* Claims about the orientation difference (SpecNormalize) *)

\* the circular distance between two angles of d hundredths of a radian
\* apart: the least |d + 2 pi k|
CircularDistance(d) ==
    LET turns == -4..4
        k0 == CHOOSE k \in turns : \A k2 \in turns : Abs(d + 628 * k) <= Abs(d + 628 * k2)
    IN  Abs(d + 628 * k0)

\* the difference returned lies in [0, pi] and, for two orientations of
\* ordinary size, is their circular distance, the same with the arguments
\* exchanged and with either shifted by a turn
C24_Returned ==
    npc = "done" =>
        /\ ~diff_result.big
        /\ 0 <= diff_result.v /\ diff_result.v <= 314
        /\ (~orientation1.big /\ ~orientation2.big) =>
               LET a == orientation1.v
                   b == orientation2.v
               IN  /\ diff_result.v = CircularDistance(a - b)
                   /\ diff_result.v = Abs(NormalizeAngle(b - a))
                   /\ diff_result.v = Abs(NormalizeAngle((a + 628) - b))
                   /\ diff_result.v = Abs(NormalizeAngle(a - (b - 628)))

\* an iteration of a loop of _normalize_angle brings the angle strictly
\* closer to [-pi, pi]
C24_Progress ==
    iterations' = iterations + 1 =>
        IF npc = "down" THEN FloatGreater(norm_angle, norm_angle')
        ELSE FloatGreater(norm_angle', norm_angle)

\* C24: the orientation difference used for gating and scoring is the
\* circular distance of the two orientations: it lies in [0, pi], is unchanged
\* when either orientation is shifted by a multiple of 2 pi and is symmetric;
\* and _normalize_angle terminates for every finite input, each iteration of
\* its loops bringing the angle strictly closer to [-pi, pi]
C24_OrientationDifference == [](C24_Returned) /\ [][C24_Progress]_vars

----------------------------------------------------------------------------
(* Claims about the scanner interface (SpecScanner) *)

\* C29: after any sequence of initialize, capture_fingerprint,
\* is_scanner_connected, get_scanner_status and cleanup calls,
\* scanner_available implies is_initialized, and is_scanner_connected has
\* returned True only with both flags set
C29_FlagsConsistent ==
    /\ scanner_available => is_initialized
    /\ (last_return.op = "is_scanner_connected" /\ last_return.success) =>
           (is_initialized /\ scanner_available)

\* C29 witness: is_scanner_connected returned True on an interface that was
\* initialized, cleaned up and initialized again
C29_Witness ==
    /\ Len(calls) = 4
    /\ calls[1] = [op |-> "initialize", ok |-> TRUE]
    /\ calls[2].op = "cleanup"
    /\ calls[3] = [op |-> "initialize", ok |-> TRUE]
    /\ last_return.op = "is_scanner_connected"
    /\ last_return.success

\* before call n, an initialize has succeeded and no cleanup followed it
ReadyBefore(n) ==
    \E j \in 1..(n - 1) :
        /\ calls[j] = [op |-> "initialize", ok |-> TRUE]
        /\ \A k \in (j + 1)..(n - 1) : calls[k].op # "cleanup"

\* C30: capture_fingerprint and /capture succeed only on an initialized
\* interface with an available scanner; before the first successful
\* initialize and after a cleanup, until an initialize succeeds again, they
\* fail and carry neither an image nor a template
C30_CaptureOnlyWhenReady ==
    last_return.op \in {"capture_fingerprint", "/capture"} =>
        /\ last_return.success => (is_initialized /\ scanner_available)
        /\ ~ReadyBefore(Len(calls)) =>
               /\ ~last_return.success
               /\ ~last_return.has_image
               /\ ~last_return.has_template

\* C30 witness: a /capture request failed after an initialize that succeeded
\* and a cleanup that followed it
C30_Witness ==
    /\ Len(calls) = 3
    /\ calls[1] = [op |-> "initialize", ok |-> TRUE]
    /\ calls[2].op = "cleanup"
    /\ last_return.op = "/capture"
    /\ ~last_return.success
    /\ ~is_initialized

----------------------------------------------------------------------------
(* Claims about the skeletonizer (SpecSkeleton) *)

\* the foreground pixels of the two working arrays, counted together
Foreground(a, b) == Cardinality(a) + Cardinality(b)

\* an iteration of the loop either strictly reduces the foreground of the
\* working arrays or leaves the working image without foreground
C22_Progress ==
    loops' = loops + 1 =>
        \/ Foreground(image', eroded') < Foreground(image, eroded)
        \/ image' = {}

\* C22: the thinning loop terminates on every binary image, the entirely
\* foreground one included: each iteration brings the working arrays
\* strictly closer to having no foreground pixel, and when the loop has
\* exited the working image has none
C22_Terminates == [](spc = "done" => image = {}) /\ [][C22_Progress]_vars

\* the 4-neighbours of a pixel inside the image
Neighbours(p) ==
    { q \in Pixels : (q[1] - p[1]) * (q[1] - p[1]) + (q[2] - p[2]) * (q[2] - p[2]) = 1 }

\* erosion and dilation by the cross, stated on sets of pixels
Eroded(E) == { p \in E : Neighbours(p) \subseteq E }
Dilated(E) == E \cup UNION { Neighbours(p) : p \in E }

\* the skeleton of the specified algorithm: the union over the successive
\* erosions E of E minus the dilation of the erosion of E
RECURSIVE SkeletonOf(_)
SkeletonOf(E) ==
    IF E = {} THEN {}
    ELSE (E \ Dilated(Eroded(E))) \cup SkeletonOf(Eroded(E))

\* C25: the skeleton _skeletonize returns, eroding in place and swapping
\* its two arrays at each iteration, is the skeleton of the specified
\* algorithm: the swap adds no skeleton pixel and loses none
C25_SameSkeleton == spc = "done" => skeleton = SkeletonOf(binary)

\* C25 witness: a call that needed at least five iterations has returned a
\* skeleton that is neither empty nor the whole input
C25_Witness ==
    /\ spc = "done"
    /\ loops >= 5
    /\ skeleton # {}
    /\ skeleton # binary

====
